---------------------------- MODULE Spec2Model ----------------------------
(***************************************************************************)
(* Model of tools/pine-syntax-checker.py, PineSyntaxChecker.               *)
(* check_basic_syntax: the bracket scan, the version check, the ternary    *)
(* check, the multiline-call tracker, the duplicate-declaration pass and   *)
(* the forward-reference check.  Each pass is a state machine over an      *)
(* immutable document; a document is the sequence `content` of characters  *)
(* (or, for the word-level passes, of tokens) and `lines` is its split at  *)
(* the newline, as content.split('\n') computes it.                        *)
(***************************************************************************)
EXTENDS Integers, Sequences, FiniteSets, TLC

VARIABLES
    content,            \* the text of the file, a sequence of characters
    lines,              \* content.split('\n')
    pc,                 \* the position of check_basic_syntax
    i,                  \* the 1-based line number of the running loop
    j,                  \* the 1-based character index of the inner loop
    stack,              \* the bracket stack: entries <<char, line>>
    errors,             \* self.errors
    warnings,           \* self.warnings
    open_parens,        \* the paren depth of the multiline-call tracker
    multiline_start,    \* the line the tracked call started on
    in_multiline_call,  \* the tracker's in-call flag
    rise_line,          \* history: the line open_parens last went 0 -> 1 on
    declared_vars,      \* the declared-name timeline: name -> first line
    func,               \* the 1-based index of `for func in math_functions`
    argv,               \* sys.argv[1:]
    file,               \* what the path names: see FileKinds
    success,            \* what check_file returned
    summary,            \* what get_summary returned
    exit_code           \* the status the process exited with

\* The multiline-call tracker's variables.
tracker == <<open_parens, multiline_start, in_multiline_call, rise_line>>

\* The document: loaded once, never changed.
doc == <<content, lines>>

\* The process around the checks: main and check_file.
process == <<argv, file, success, summary, exit_code>>

vars == <<doc, pc, i, j, stack, errors, warnings, tracker, declared_vars,
          func, process>>

---------------------------------------------------------------------------
(* Bounds of the model.                                                    *)

\* the longest text of the bracket scan, the multiline-call tracker, the
\* ternary check and the version check; the most lines of the declaration
\* passes
MaxBracketLen == 5
MaxParenLen == 6
MaxTernaryLen == 6
MaxVersionLen == 5
MaxDeclLines == 3
\* the most pieces of a text of the math rule
MaxMathLen == 4
\* the most pieces of a text of the required-declaration check
MaxDeclarationLen == 5
\* the longest text of the run from the bracket scan to the tracker
MaxSyntaxLen == 5
\* the most blocks below the head of a file given to main
MaxBodyBlocks == 2

---------------------------------------------------------------------------
(* Generic helpers: documents, lines, findings.                            *)

NL == "\n"

\* All sequences over alphabet A of length at most n.
SeqsUpTo(A, n) == UNION {[1..k -> A] : k \in 0..n}

\* str.split('\n'): the text between newlines; a text without a newline is
\* one line, and the empty text is one empty line.
RECURSIVE Split(_)
Split(s) ==
    IF \A k \in 1..Len(s) : s[k] # NL
    THEN <<s>>
    ELSE LET p == CHOOSE k \in 1..Len(s) :
                      s[k] = NL /\ \A m \in 1..(k - 1) : s[m] # NL
         IN  <<SubSeq(s, 1, p - 1)>> \o Split(SubSeq(s, p + 1, Len(s)))

\* One entry of self.errors or self.warnings.  kind is the fixed text of
\* the message, line the "Line {i}" it starts with (0 when it has none),
\* what / ref the values formatted into it.
Finding(kind, line, what, ref) ==
    [kind |-> kind, line |-> line, what |-> what, ref |-> ref]

---------------------------------------------------------------------------
(* The process around the checks: main, lines 490-512, and check_file,     *)
(* lines 24-42.                                                            *)

---------------------------------------------------------------------------
(* BracketMatcher: check_basic_syntax, lines 47-64.                        *)

brackets == ("(" :> ")") @@ ("[" :> "]") @@ ("{" :> "}")

Openers == DOMAIN brackets
Closers == {brackets[c] : c \in Openers}
BracketAlphabet == Openers \cup Closers \cup {"x", NL}

UnexpectedMsgZeroBased(line, char) ==
    Finding("Unexpected closing bracket", line - 1, char, 0)
UnexpectedMsg(line, char) ==
    Finding("Unexpected closing bracket", line, char, 0)
MismatchedMsg(line, opening, open_line, char) ==
    Finding("Mismatched brackets", line, <<opening, char>>, open_line)
UnclosedMsg(line, char) == Finding("Unclosed bracket", line, char, 0)

\* stack.append((char, i))
StackPush(s, char, line) == Append(s, <<char, line>>)
\* stack.pop(): the entry returned and the stack left
StackBottom(s) == s[1]
StackTop(s) == s[Len(s)]
StackPopFirst(s) == Tail(s)
StackPop(s) == SubSeq(s, 1, Len(s) - 1)

InBracketLine == pc = "brackets" /\ i <= Len(lines)
AtChar == InBracketLine /\ j <= Len(lines[i])
char == lines[i][j]

\* if char in brackets: stack.append((char, i))
BracketOpen ==
    /\ AtChar
    /\ char \in Openers
    /\ stack' = StackPush(stack, char, i)
    /\ j' = j + 1
    /\ UNCHANGED <<doc, func, process, pc, i, errors, warnings, tracker,
                   declared_vars>>

\* elif char in brackets.values(): if not stack: append error; continue
BracketUnexpected ==
    /\ AtChar
    /\ char \in Closers
    /\ stack = <<>>
    /\ errors' = Append(errors, UnexpectedMsg(i, char))
    /\ j' = j + 1
    /\ UNCHANGED <<doc, func, process, pc, i, stack, warnings, tracker,
                   declared_vars>>

\* opening, open_line = stack.pop(); if brackets[opening] != char: error
BracketClose ==
    /\ AtChar
    /\ char \in Closers
    /\ stack # <<>>
    /\ LET opening   == StackTop(stack)[1]
           open_line == StackTop(stack)[2]
       IN  errors' = IF brackets[opening] # char
                     THEN Append(errors,
                                 MismatchedMsg(i, opening, open_line, char))
                     ELSE errors
    /\ stack' = StackPop(stack)
    /\ j' = j + 1
    /\ UNCHANGED <<doc, func, process, pc, i, warnings, tracker,
                   declared_vars>>

\* any other character: neither branch is taken
BracketOther ==
    /\ AtChar
    /\ char \notin Openers \cup Closers
    /\ j' = j + 1
    /\ UNCHANGED <<doc, func, process, pc, i, stack, errors, warnings, tracker,
                   declared_vars>>

\* the inner loop is exhausted: the outer loop takes the next line
BracketNextLine ==
    /\ InBracketLine
    /\ j > Len(lines[i])
    /\ i' = i + 1
    /\ j' = 1
    /\ UNCHANGED <<doc, func, process, pc, stack, errors, warnings, tracker,
                   declared_vars>>

\* if stack: char, line = stack[-1]; append "Unclosed bracket"
UnclosedReportOldest(s) ==
    IF s # <<>> THEN <<UnclosedMsg(s[1][2], s[1][1])>> ELSE <<>>
UnclosedReportNested(s) ==
    IF Len(s) > 1 THEN <<UnclosedMsg(StackTop(s)[2], StackTop(s)[1])>> ELSE <<>>
UnclosedReport(s) ==
    IF s # <<>> THEN <<UnclosedMsg(StackTop(s)[2], StackTop(s)[1])>> ELSE <<>>

BracketEnd ==
    /\ pc = "brackets"
    /\ i > Len(lines)
    /\ errors' = errors \o UnclosedReport(stack)
    /\ pc' = "version"
    /\ UNCHANGED <<doc, func, process, i, j, stack, warnings, tracker,
                   declared_vars>>

\* The findings and the locals of check_basic_syntax before its first
\* statement.
InitLocals ==
    /\ lines = Split(content)
    /\ i = 1
    /\ j = 1
    /\ stack = <<>>
    /\ errors = <<>>
    /\ warnings = <<>>
    /\ open_parens = 0
    /\ multiline_start = 0
    /\ in_multiline_call = FALSE
    /\ rise_line = 0
    /\ declared_vars = <<>>
    /\ func = 1

InitScan ==
    LET
        \* The process stands in check_basic_syntax: the text of the file
        \* named on the command line is read, nothing is returned yet
        \* (success) and the process runs (exit_code).
        InCheckFile ==
            /\ argv = <<"script.pine">>
            /\ file = "text"
            /\ success = "not returned"
            /\ summary = <<>>
            /\ exit_code = -1
    IN  InitLocals /\ InCheckFile

InitBracket ==
    /\ content \in SeqsUpTo(BracketAlphabet, MaxBracketLen)
    /\ pc = "brackets"
    /\ InitScan

NextBracket ==
    \/ BracketOpen
    \/ BracketUnexpected
    \/ BracketClose
    \/ BracketOther
    \/ BracketNextLine
    \/ BracketEnd

SpecBracket == InitBracket /\ [][NextBracket]_vars

---------------------------------------------------------------------------
(* What the bracket scan has to find, read off the document alone.         *)

\* The entries of self.errors the claims speak of: the kind of the message,
\* the line it starts with, the characters and the opening line it names.
ReportedStray(line, c) ==
    [kind |-> "Unexpected closing bracket", line |-> line, what |-> c,
     ref |-> 0]
ReportedMismatch(line, opening, open_line, c) ==
    [kind |-> "Mismatched brackets", line |-> line, what |-> <<opening, c>>,
     ref |-> open_line]
ReportedUnclosed(line, c) ==
    [kind |-> "Unclosed bracket", line |-> line, what |-> c, ref |-> 0]

IsBracket(c) == c \in Openers \cup Closers
BracketChars(s) == SelectSeq(s, IsBracket)

\* The 1-based line a position of the text lies on.
LineOf(p) == 1 + Cardinality({q \in 1..(p - 1) : content[q] = NL})

Count(s, S) == Cardinality({q \in 1..Len(s) : s[q] \in S})
Depth(s) == Count(s, Openers) - Count(s, Closers)

\* A stretch of text whose brackets pair up among themselves, whatever
\* their shapes: no prefix closes more than it opened, and nothing stays
\* open.
Enclosed(s) ==
    /\ \A n \in 0..Len(s) : Depth(SubSeq(s, 1, n)) >= 0
    /\ Depth(s) = 0

\* The opener a closer at position k closes: the nearest one before it with
\* only paired-up brackets in between (none when the closer is stray).
Partner(k) ==
    {p \in 1..(k - 1) : /\ content[p] \in Openers
                        /\ Enclosed(SubSeq(content, p + 1, k - 1))}

\* The openers nothing closes.
StillOpen ==
    {p \in 1..Len(content) :
        /\ content[p] \in Openers
        /\ \A n \in 0..(Len(content) - p) :
              Depth(SubSeq(content, p + 1, p + n)) >= 0}

\* The position in the text of the character the scan is at.
RECURSIVE LineStart(_)
LineStart(n) == IF n = 1 THEN 0 ELSE LineStart(n - 1) + Len(lines[n - 1]) + 1
ScanPos == LineStart(i) + j

Max(S) == CHOOSE x \in S : \A y \in S : y <= x

\* Brackets are correctly nested when deleting adjacent matching pairs,
\* again and again, deletes them all.
RECURSIVE Reduce(_)
Reduce(s) ==
    IF \E k \in 1..(Len(s) - 1) :
          s[k] \in Openers /\ s[k + 1] = brackets[s[k]]
    THEN LET k == CHOOSE n \in 1..(Len(s) - 1) :
                      s[n] \in Openers /\ s[n + 1] = brackets[s[n]]
         IN  Reduce(SubSeq(s, 1, k - 1) \o SubSeq(s, k + 2, Len(s)))
    ELSE s

WellNested(s) == Reduce(BracketChars(s)) = <<>>

\* The findings the closers of the first k characters call for, in order.
RECURSIVE CloserFindings(_)
CloserFindings(k) ==
    IF k = 0 THEN <<>>
    ELSE CloserFindings(k - 1) \o
         (IF content[k] \notin Closers THEN <<>>
          ELSE IF Partner(k) = {}
               THEN <<ReportedStray(LineOf(k), content[k])>>
          ELSE LET p == Max(Partner(k))
               IN  IF brackets[content[p]] # content[k]
                   THEN <<ReportedMismatch(LineOf(k), content[p], LineOf(p),
                                        content[k])>>
                   ELSE <<>>)

IsUnexpected(f) == f.kind = "Unexpected closing bracket"
IsMismatched(f) == f.kind = "Mismatched brackets"
IsUnclosed(f) == f.kind = "Unclosed bracket"
BracketScanDone == pc = "version"

---------------------------------------------------------------------------
(* C1: when the brackets of the document are correctly nested, the bracket *)
(* scan ends without an 'Unexpected closing bracket', a 'Mismatched        *)
(* brackets' or an 'Unclosed bracket' error.                               *)
C1_WellNestedNoFindings ==
    (BracketScanDone /\ WellNested(content)) =>
        /\ SelectSeq(errors, IsUnexpected) = <<>>
        /\ SelectSeq(errors, IsMismatched) = <<>>
        /\ SelectSeq(errors, IsUnclosed) = <<>>

\* A scan that finished a nested, two-shape, two-line document.
C1_Witness ==
    /\ BracketScanDone
    /\ WellNested(content)
    /\ Len(lines) = 2
    /\ Len(BracketChars(content)) = 4
    /\ BracketChars(content)[2] \in Openers
    /\ BracketChars(content)[1] # BracketChars(content)[2]

C2_StepUnexpected ==
    (AtChar /\ char \in Closers /\ stack = <<>>) =>
        /\ errors' = Append(errors, ReportedStray(i, char))
        /\ stack' = <<>>
        /\ pc' = pc /\ i' = i /\ j' = j + 1

C2_AllStrayClosersReported ==
    BracketScanDone =>
        /\ SelectSeq(errors, IsUnexpected)
             = SelectSeq(CloserFindings(Len(content)), IsUnexpected)
        /\ (Len(lines) = 1 /\ BracketChars(content) = <<"(", ")", ")">>)
             => errors = <<ReportedStray(1, ")")>>

(* C2: a closer met on an empty stack appends exactly one 'Unexpected      *)
(* closing bracket' error with the number of its line, leaves the stack    *)
(* empty and the scan goes on with the next character; at the end the      *)
(* errors of that kind are exactly those of the stray closers of the whole *)
(* document, and a one-line document with the brackets of `foo(a))` gets   *)
(* exactly one error, for line 1.                                          *)
C2_UnexpectedClosing ==
    [][C2_StepUnexpected]_vars /\ [] C2_AllStrayClosersReported

\* `())` on line 1 and `)` on line 2, scanned to the end: the stray closer
\* of line 1 is reported and so is the one met later, on line 2.
C2_Witness ==
    /\ BracketScanDone
    /\ content = <<"(", ")", ")", NL, ")">>
    /\ errors = <<ReportedStray(1, ")"), ReportedStray(2, ")")>>
    /\ stack = <<>>

(* C3: at the end of the scan a non-empty stack gives exactly one          *)
(* 'Unclosed bracket' error, for the character and line of the top entry,  *)
(* which is the last opener of the document nothing closes; an empty stack *)
(* gives none.                                                             *)
C3_UnclosedBracket ==
    BracketScanDone =>
        IF stack # <<>>
        THEN /\ SelectSeq(errors, IsUnclosed)
                  = <<ReportedUnclosed(stack[Len(stack)][2], stack[Len(stack)][1])>>
             /\ StillOpen # {}
             /\ stack[Len(stack)]
                  = <<content[Max(StillOpen)], LineOf(Max(StillOpen))>>
        ELSE /\ SelectSeq(errors, IsUnclosed) = <<>>
             /\ StillOpen = {}

\* Two entries left, opened on different lines with different shapes.
C3_Witness ==
    /\ BracketScanDone
    /\ Len(stack) = 2
    /\ stack[1][1] # stack[2][1]
    /\ stack[1][2] # stack[2][2]
    /\ Len(SelectSeq(errors, IsUnclosed)) = 1

C4_StepClose ==
    (AtChar /\ char \in Closers /\ stack # <<>>) =>
        /\ stack' = SubSeq(stack, 1, Len(stack) - 1)
        /\ Partner(ScanPos) # {}
        /\ stack[Len(stack)] =
              LET p == Max(Partner(ScanPos))
              IN  <<content[p], LineOf(p)>>
        /\ errors' =
              IF brackets[stack[Len(stack)][1]] # char
              THEN Append(errors,
                     ReportedMismatch(i, stack[Len(stack)][1],
                                   stack[Len(stack)][2], char))
              ELSE errors

C4_StepOpen ==
    (AtChar /\ char \in Openers) =>
        stack' = stack \o <<(<<char, i>>)>> /\ errors' = errors

C4_AllMismatchesReported ==
    BracketScanDone =>
        SelectSeq(errors, IsMismatched)
          = SelectSeq(CloserFindings(Len(content)), IsMismatched)

(* C4: a closer met on a non-empty stack removes exactly the entry pushed  *)
(* last among those still there (an opener is pushed on top), appends a    *)
(* 'Mismatched brackets' error with the opener's line and the current line *)
(* exactly when the opener's closer is another character, and drops the    *)
(* entry either way; so the entry removed is the nearest unpaired opener   *)
(* of the document.                                                        *)
C4_PopLastPushed ==
    /\ [][C4_StepClose]_vars
    /\ [][C4_StepOpen]_vars
    /\ [] C4_AllMismatchesReported

\* `[(]` seen to its end: the pop of `(` by `]` is reported, `[` is left.
C4_Witness ==
    /\ BracketScanDone
    /\ Len(SelectSeq(errors, IsMismatched)) = 1
    /\ errors[1].what = <<"(", "]">>
    /\ Len(stack) = 1 /\ stack[1][1] = "["

(* C16: a document whose brackets, read in order, are not correctly nested *)
(* ends the bracket scan with at least one 'Unexpected closing bracket',   *)
(* 'Mismatched brackets' or 'Unclosed bracket' error: the scan stays       *)
(* without an error only on well-nested documents.                         *)
C16_NotNestedHasFinding ==
    (BracketScanDone /\ ~WellNested(content)) =>
        \E k \in 1..Len(errors) :
            errors[k].kind \in {"Unexpected closing bracket",
                                "Mismatched brackets", "Unclosed bracket"}

\* A lone opener: as many findings as it takes, one 'Unclosed bracket'.
C16_Witness ==
    /\ BracketScanDone
    /\ ~WellNested(content)
    /\ Len(BracketChars(content)) = 1
    /\ BracketChars(content)[1] \in {"(", "[", "{"}
    /\ Len(errors) = 1
    /\ errors[1].kind = "Unclosed bracket"

---------------------------------------------------------------------------
(* MultilineCallTracker: check_basic_syntax, lines 111-146.                *)

\* str.strip() drops blanks and newlines alike; a line holds no newline.
Whitespace == {" ", NL}
ParenAlphabet == {"(", ")", "/", "x", " ", NL}

\* str.strip(): the text without its leading and trailing whitespace.
RECURSIVE LStrip(_)
LStrip(s) ==
    IF s # <<>> /\ Head(s) \in Whitespace THEN LStrip(Tail(s)) ELSE s
RECURSIVE RStrip(_)
RStrip(s) ==
    IF s # <<>> /\ s[Len(s)] \in Whitespace
    THEN RStrip(SubSeq(s, 1, Len(s) - 1))
    ELSE s
Strip(s) == RStrip(LStrip(s))

\* str.startswith(prefix)
StartsWith(s, prefix) ==
    Len(s) >= Len(prefix) /\ SubSeq(s, 1, Len(prefix)) = prefix

LineComment == <<"/", "/">>

\* if stripped.startswith('//') or stripped == '': continue
SkippedLine(line) ==
    StartsWith(Strip(line), LineComment) \/ Strip(line) = <<>>

ExtraClosingMsg(line, start) ==
    Finding("Extra closing parenthesis", line, "", start)
UnclosedParenMsg(line, start) ==
    Finding("Unclosed parenthesis", line, "", start)

\* One turn of `for char in stripped` on line n.  st holds open_parens,
\* in_multiline_call and multiline_start; rise is the history of the line
\* on which open_parens last went from 0 to 1.
CountChar(c, n, st) ==
    IF c = "("
    THEN [open    |-> st.open + 1,
          in_call |-> TRUE,
          start   |-> IF ~st.in_call THEN n ELSE st.start,
          rise    |-> IF st.open = 0 THEN n ELSE st.rise]
    ELSE IF c = ")"
    THEN [st EXCEPT !.open = @ - 1]
    ELSE st

RECURSIVE CountParens(_, _, _)
CountParens(s, n, st) ==
    IF s = <<>> THEN st
    ELSE CountParens(Tail(s), n, CountChar(Head(s), n, st))

TrackerState ==
    [open |-> open_parens, in_call |-> in_multiline_call,
     start |-> multiline_start, rise |-> rise_line]

\* a comment or an empty line: continue
ParenSkip ==
    /\ pc = "parens"
    /\ i <= Len(lines)
    /\ SkippedLine(lines[i])
    /\ i' = i + 1
    /\ UNCHANGED <<doc, func, process, pc, j, stack, errors, warnings, tracker,
                   declared_vars>>

\* The update after the characters of line n are counted (lines 134-142):
\* the state left and the errors appended.
EndOfLineCallKept(n, st) ==
    IF st.in_call /\ n > st.start /\ st.open > 0
    THEN [st |-> st, errs |-> <<>>]
    ELSE IF st.in_call /\ st.open < 0
    THEN [st   |-> [st EXCEPT !.in_call = FALSE, !.open = 0],
          errs |-> <<ExtraClosingMsg(n, st.start)>>]
    ELSE [st |-> st, errs |-> <<>>]
EndOfLine(n, st) ==
    IF st.in_call /\ st.open = 0
    THEN [st |-> [st EXCEPT !.in_call = FALSE], errs |-> <<>>]
    ELSE IF st.in_call /\ n > st.start /\ st.open > 0
    THEN [st |-> st, errs |-> <<>>]
    ELSE IF st.in_call /\ st.open < 0
    THEN [st   |-> [st EXCEPT !.in_call = FALSE, !.open = 0],
          errs |-> <<ExtraClosingMsg(n, st.start)>>]
    ELSE [st |-> st, errs |-> <<>>]

\* a line that counts: its parentheses, then the end-of-line update
ParenLine ==
    /\ pc = "parens"
    /\ i <= Len(lines)
    /\ ~SkippedLine(lines[i])
    /\ LET r == EndOfLine(i, CountParens(Strip(lines[i]), i, TrackerState))
       IN  /\ open_parens' = r.st.open
           /\ in_multiline_call' = r.st.in_call
           /\ multiline_start' = r.st.start
           /\ rise_line' = r.st.rise
           /\ errors' = errors \o r.errs
    /\ i' = i + 1
    /\ UNCHANGED <<doc, func, process, pc, j, stack, warnings, declared_vars>>

\* if open_parens > 0: append "Unclosed parenthesis" at the last line
UnclosedParenReportNested(open, start) ==
    IF open > 1 THEN <<UnclosedParenMsg(Len(lines), start)>> ELSE <<>>
UnclosedParenReport(open, start) ==
    IF open > 0 THEN <<UnclosedParenMsg(Len(lines), start)>> ELSE <<>>

ParenEnd ==
    /\ pc = "parens"
    /\ i > Len(lines)
    /\ errors' = errors \o UnclosedParenReport(open_parens, multiline_start)
    /\ pc' = "keywords"
    /\ UNCHANGED <<doc, func, process, i, j, stack, warnings, tracker,
                   declared_vars>>

InitParen ==
    /\ content \in SeqsUpTo(ParenAlphabet, MaxParenLen)
    /\ pc = "parens"
    /\ InitScan

NextParen ==
    \/ ParenSkip
    \/ ParenLine
    \/ ParenEnd

SpecParen == InitParen /\ [][NextParen]_vars

IsExtraClosing(f) == f.kind = "Extra closing parenthesis"
IsUnclosedParen(f) == f.kind = "Unclosed parenthesis"
TrackerDone == pc = "keywords"

\* The depth after the characters of the line the tracker stands at.
ParenCount(s, c) == Cardinality({q \in 1..Len(s) : s[q] = c})
DepthAfterLine ==
    open_parens + ParenCount(lines[i], "(") - ParenCount(lines[i], ")")
AtCountedLine == pc = "parens" /\ i <= Len(lines) /\ ~SkippedLine(lines[i])

C5_StepNegative ==
    (AtCountedLine /\ DepthAfterLine < 0) =>
        /\ Len(errors') = Len(errors) + 1
        /\ IsExtraClosing(errors'[Len(errors')])
        /\ errors'[Len(errors')].ref = multiline_start'
        /\ open_parens' = 0
        /\ in_multiline_call' = FALSE

C5_NeverNegativeAtLineStart == pc = "parens" => open_parens >= 0

(* C5: whenever the depth is negative after a line's parentheses are      *)
(* counted, an 'Extra closing parenthesis' error naming the call's start   *)
(* line is appended and the depth and the in-call flag are reset; so the   *)
(* depth is never negative when the next line starts to be processed.      *)
C5_ExtraClosingReported ==
    [][C5_StepNegative]_vars /\ [] C5_NeverNegativeAtLineStart

C6_StepSkipped ==
    (pc = "parens" /\ i <= Len(lines) /\ SkippedLine(lines[i])) =>
        UNCHANGED <<open_parens, in_multiline_call, multiline_start, errors>>

C6_UnclosedAtEnd ==
    TrackerDone =>
        IF open_parens > 0
        THEN /\ Len(SelectSeq(errors, IsUnclosedParen)) = 1
             /\ SelectSeq(errors, IsUnclosedParen)[1].ref = multiline_start
             /\ multiline_start = rise_line
        ELSE SelectSeq(errors, IsUnclosedParen) = <<>>

(* C6: blank and comment lines change nothing of the tracker; at the end   *)
(* of the document a positive depth gives exactly one 'Unclosed            *)
(* parenthesis' error, naming the line on which the depth last went from   *)
(* 0 to 1, and a depth of 0 or less gives none.                            *)
C6_UnclosedNamesCallStart ==
    [][C6_StepSkipped]_vars /\ [] C6_UnclosedAtEnd

C17_StepQuietOutsideCall ==
    (AtCountedLine /\ ~in_multiline_call /\ ParenCount(lines[i], "(") = 0) =>
        /\ errors' = errors
        /\ ~in_multiline_call'
        /\ open_parens' = open_parens - ParenCount(lines[i], ")")

C17_InCallIffOpen ==
    pc \in {"parens", "keywords"} =>
        /\ in_multiline_call <=> open_parens > 0
        /\ ~in_multiline_call => open_parens <= 0

(* C17: at every line boundary of the tracker's loop, in_multiline_call is *)
(* true exactly when open_parens > 0, so with the flag false the depth is  *)
(* 0 or less; and a counted line without `(`, met with the flag false,     *)
(* only lowers the depth by its `)` and appends no error, so the depth may *)
(* stay negative from line to line.                                        *)
C17_TrackerFlagInvariant ==
    [][C17_StepQuietOutsideCall]_vars /\ [] C17_InCallIffOpen

\* Three counted lines in, the depth fell further on each of the last two
\* and no error was appended.
C17_Witness ==
    /\ pc = "parens"
    /\ i = 4
    /\ \A n \in 1..3 : ~SkippedLine(lines[n])
    /\ ParenCount(lines[1], "(") = 1
    /\ ~in_multiline_call
    /\ open_parens = -2
    /\ errors = <<>>

---------------------------------------------------------------------------
(* Ternary completeness: check_basic_syntax, lines 99-109.                 *)

TernaryAlphabet == {"?", ":", "x", " ", NL}

\* str.endswith(c) for a single character c
EndsWith(s, c) == s # <<>> /\ s[Len(s)] = c
\* str.count(c)
CountOf(s, c) == Cardinality({q \in 1..Len(s) : s[q] = c})
\* c in str
Contains(s, c) == \E q \in 1..Len(s) : s[q] = c

IncompleteTernaryMsg(line) == Finding("Incomplete ternary operator", line, "", 0)

\* if i < len(lines_list) - 1: the line is looked at only then
HasLookahead(n, ls) == n < Len(ls) - 1

\* The errors line n of ls calls for (lines 102-109).
TernaryFindings(n, ls) ==
    LET stripped == Strip(ls[n])
    IN  IF /\ EndsWith(stripped, "?")
           /\ ~(CountOf(stripped, "?") = CountOf(stripped, ":"))
           /\ HasLookahead(n, ls)
           /\ LET next_line == Strip(ls[n + 1])
              IN  ~(Contains(next_line, ":") \/ Contains(next_line, "?"))
        THEN <<IncompleteTernaryMsg(n)>>
        ELSE <<>>

TernaryLine ==
    /\ pc = "ternary"
    /\ i <= Len(lines)
    /\ errors' = errors \o TernaryFindings(i, lines)
    /\ i' = i + 1
    /\ UNCHANGED <<doc, func, process, pc, j, stack, warnings, tracker,
                   declared_vars>>

\* the loop is over; the multiline-call tracker starts at line 1
TernaryEnd ==
    /\ pc = "ternary"
    /\ i > Len(lines)
    /\ pc' = "parens"
    /\ i' = 1
    /\ UNCHANGED <<doc, func, process, j, stack, errors, warnings, tracker,
                   declared_vars>>

InitTernary ==
    /\ content \in SeqsUpTo(TernaryAlphabet, MaxTernaryLen)
    /\ pc = "ternary"
    /\ InitScan

NextTernary ==
    \/ TernaryLine
    \/ TernaryEnd

SpecTernary == InitTernary /\ [][NextTernary]_vars

IsIncompleteTernary(f) == f.kind = "Incomplete ternary operator"
TernaryDone == pc = "parens"

\* A line that ends, trimmed, with `?` and has unequal counts of `?` and
\* `:`, followed by a line with neither `:` nor `?`.
DanglingTernary(n) ==
    /\ n + 1 <= Len(lines)
    /\ Strip(lines[n]) # <<>>
    /\ Strip(lines[n])[Len(Strip(lines[n]))] = "?"
    /\ CountOf(lines[n], "?") # CountOf(lines[n], ":")
    /\ \A q \in 1..Len(lines[n + 1]) : lines[n + 1][q] \notin {":", "?"}

(* C9: every line that has a next line, ends (trimmed) with `?`, has      *)
(* unequal counts of `?` and `:` and is followed by a line with neither    *)
(* `:` nor `?` gets an 'Incomplete ternary operator' error with its        *)
(* number, the line just before the last line included.                    *)
C9_EveryDanglingTernaryReported ==
    TernaryDone =>
        \A n \in 1..Len(lines) :
            DanglingTernary(n) =>
                \E k \in 1..Len(errors) :
                    IsIncompleteTernary(errors[k]) /\ errors[k].line = n

---------------------------------------------------------------------------
(* Version check: check_basic_syntax, lines 66-79.  Here the text is a     *)
(* sequence of the pieces the check tells apart: the marker `//@version`,  *)
(* `=`, decimal digits, another character and the newline.                 *)

VersionMarker == "//@version"
Digits == {"4", "5", "6", "7"}
VersionAlphabet == {VersionMarker, "=", "x", NL} \cup Digits

DigitValue(d) ==
    CASE d = "4" -> 4 [] d = "5" -> 5 [] d = "6" -> 6 [] d = "7" -> 7

\* int(s) of a sequence of digits
RECURSIVE IntOf(_)
IntOf(ds) ==
    IF ds = <<>> THEN 0
    ELSE 10 * IntOf(SubSeq(ds, 1, Len(ds) - 1)) + DigitValue(ds[Len(ds)])

\* (\d+) from position p on: the longest run of digits
RECURSIVE DigitRun(_, _)
DigitRun(s, p) ==
    IF p <= Len(s) /\ s[p] \in Digits
    THEN <<s[p]>> \o DigitRun(s, p + 1)
    ELSE <<>>

\* re.search(r'//@version=(\d+)', content): the places it matches
VersionMatches(s) ==
    {p \in 1..Len(s) : /\ s[p] = VersionMarker
                       /\ p + 2 <= Len(s)
                       /\ s[p + 1] = "="
                       /\ s[p + 2] \in Digits}

Min(S) == CHOOSE x \in S : \A y \in S : x <= y

\* int(version_match.group(1)) of the leftmost match
VersionOf(s) == IntOf(DigitRun(s, Min(VersionMatches(s)) + 2))

ShouldStartMsg == Finding("File should start with //@version directive", 0, "", 0)
OutdatedMsg(version) == Finding("is outdated", 0, "", version)
NewerMsg(version) == Finding("is newer than expected", 0, "", version)
UndeterminedMsg == Finding("Could not determine Pine Script version", 0, "", 0)

\* if not content.strip().startswith('//@version')
MissingStart(s) == ~StartsWith(Strip(s), <<VersionMarker>>)

VersionStart ==
    /\ pc = "version"
    /\ warnings' = IF MissingStart(content)
                   THEN Append(warnings, ShouldStartMsg)
                   ELSE warnings
    /\ pc' = "version_number"
    /\ UNCHANGED <<doc, func, process, i, j, stack, errors, tracker,
                   declared_vars>>

IsOutdatedInclusive(version) == version <= 5
IsOutdated(version) == version < 5
IsNewer(version) == version > 6

\* The warnings of lines 71-79.
VersionFindings(s) ==
    IF VersionMatches(s) # {}
    THEN IF IsOutdated(VersionOf(s)) THEN <<OutdatedMsg(VersionOf(s))>>
         ELSE IF IsNewer(VersionOf(s)) THEN <<NewerMsg(VersionOf(s))>>
         ELSE <<>>
    ELSE <<UndeterminedMsg>>

VersionNumber ==
    /\ pc = "version_number"
    /\ warnings' = warnings \o VersionFindings(content)
    /\ pc' = "declaration"
    /\ UNCHANGED <<doc, func, process, i, j, stack, errors, tracker,
                   declared_vars>>

InitVersion ==
    /\ content \in SeqsUpTo(VersionAlphabet, MaxVersionLen)
    /\ pc = "version"
    /\ InitScan

NextVersion ==
    \/ VersionStart
    \/ VersionNumber

SpecVersion == InitVersion /\ [][NextVersion]_vars

---------------------------------------------------------------------------
(* What the version check has to say, read off the document alone.         *)

VersionCheckDone == pc = "declaration"

\* The text reads `//@version=` and a digit at position p.
DirectiveAt(p) ==
    /\ p + 2 <= Len(content)
    /\ content[p] = "//@version"
    /\ content[p + 1] = "="
    /\ content[p + 2] \in {"4", "5", "6", "7"}

HasDirective == \E p \in 1..Len(content) : DirectiveAt(p)

\* The last digit of the numeral that starts at position q.
NumeralEnd(q) ==
    CHOOSE e \in q..Len(content) :
        /\ \A k \in q..e : content[k] \in {"4", "5", "6", "7"}
        /\ (e = Len(content) \/ content[e + 1] \notin {"4", "5", "6", "7"})

RECURSIVE Pow10(_)
Pow10(n) == IF n = 0 THEN 1 ELSE 10 * Pow10(n - 1)

DigitAsNumber(d) == IF d = "4" THEN 4 ELSE IF d = "5" THEN 5
                    ELSE IF d = "6" THEN 6 ELSE 7

RECURSIVE NumeralValue(_, _)
NumeralValue(q, e) ==
    IF q > e THEN 0
    ELSE DigitAsNumber(content[q]) * Pow10(e - q) + NumeralValue(q + 1, e)

\* The number of the directive at position p.
DirectiveVersion(p) == NumeralValue(p + 2, NumeralEnd(p + 2))

FirstDirective == CHOOSE p \in 1..Len(content) :
                      DirectiveAt(p) /\ \A q \in 1..(p - 1) : ~DirectiveAt(q)

\* The first character of the text that is neither a blank nor a newline
\* is the marker `//@version`.
StartsWithMarker ==
    \E p \in 1..Len(content) :
        /\ content[p] = "//@version"
        /\ \A q \in 1..(p - 1) : content[q] \in {" ", NL}

\* The trimmed text starts with the directive of version v, and v is the
\* whole of its number.
StartsWithVersion(v) ==
    \E p \in 1..Len(content) :
        /\ DirectiveAt(p)
        /\ \A q \in 1..(p - 1) : content[q] \in {" ", NL}
        /\ DirectiveVersion(p) = v

WarnedShouldStart ==
    [kind |-> "File should start with //@version directive", line |-> 0,
     what |-> "", ref |-> 0]
WarnedUndetermined ==
    [kind |-> "Could not determine Pine Script version", line |-> 0,
     what |-> "", ref |-> 0]
WarnedOutdated(v) ==
    [kind |-> "is outdated", line |-> 0, what |-> "", ref |-> v]
WarnedNewer(v) ==
    [kind |-> "is newer than expected", line |-> 0, what |-> "", ref |-> v]

Among(fs, f) == \E k \in 1..Len(fs) : fs[k] = f

(* C10 as stated: without a version directive the check gives exactly one  *)
(* warning and no error; a directive of a version below 5 gives an         *)
(* 'outdated' warning, one above 6 a 'newer than expected' warning; a      *)
(* document that starts with `//@version=5` or `//@version=6` gets no      *)
(* version warning.                                                        *)
C10_VersionWarnings ==
    VersionCheckDone =>
        /\ errors = <<>>
        /\ ~HasDirective => Len(warnings) = 1
        /\ \A p \in 1..Len(content) :
              DirectiveAt(p) =>
                /\ DirectiveVersion(p) < 5
                      => Among(warnings, WarnedOutdated(DirectiveVersion(p)))
                /\ DirectiveVersion(p) > 6
                      => Among(warnings, WarnedNewer(DirectiveVersion(p)))
        /\ (\E p \in 1..Len(content) :
               /\ DirectiveAt(p)
               /\ content[p + 2] \in {"5", "6"}
               /\ \A q \in 1..(p - 1) : content[q] \in {" ", NL})
             => warnings = <<>>

(* C10 as amended: the version check appends no error.  Without a          *)
(* directive `//@version=<int>` it gives the warning 'Could not determine  *)
(* Pine Script version', preceded by 'File should start with //@version    *)
(* directive' unless the trimmed text starts with `//@version`: two        *)
(* warnings, or one.  With a directive, the number of the first one        *)
(* decides: below 5 an 'outdated' warning, above 6 a 'newer than expected' *)
(* warning, 5 or 6 none; and a text that starts (trimmed) with the         *)
(* directive of version 5 or 6 gets no version warning at all.             *)
C10_VersionWarningsAmended ==
    VersionCheckDone =>
        /\ errors = <<>>
        /\ ~HasDirective =>
              warnings = IF StartsWithMarker
                         THEN <<WarnedUndetermined>>
                         ELSE <<WarnedShouldStart, WarnedUndetermined>>
        /\ HasDirective =>
              LET v == DirectiveVersion(FirstDirective)
              IN  /\ v < 5 => Among(warnings, WarnedOutdated(v))
                  /\ v > 6 => Among(warnings, WarnedNewer(v))
                  /\ v \in {5, 6} =>
                        \A k \in 1..Len(warnings) :
                            warnings[k] = WarnedShouldStart
        /\ (StartsWithVersion(5) \/ StartsWithVersion(6)) => warnings = <<>>

\* A text without a directive, not starting with the marker, checked to
\* the end: two warnings.
C10_Witness ==
    /\ VersionCheckDone
    /\ ~HasDirective
    /\ \E p \in 1..Len(content) : content[p] \in {"5", "6"}
    /\ Len(warnings) = 2

---------------------------------------------------------------------------
(* DeclarationTracker: check_basic_syntax, lines 320-374.  Here a line is  *)
(* a sequence of tokens written with one blank between them: words (\w+),  *)
(* and the symbols the patterns of these passes tell apart.                *)

Symbols == {"=", ":=", "=>", ":", "?", "(", ")", "//", "int[]", NL}
\* the tokens that start with `:` or `=`, and those that start with `=`
ColonOrEquals == {"=", ":=", "=>", ":"}
EqualsFirst == {"=", "=>"}
IsWord(t) == t \notin Symbols

\* The lines the documents of this model are made of.
DeclNames == {"x", "minCycleLength"}
LineShapes ==
    {<<>>, <<"//", "minCycleLength", "=", "1">>,
     <<"f", "(", "maxCycleLength", ")">>, <<"maxCycleLength", "=", "1">>,
     <<"var", "int[]", "x", "=", "1">>}
    \cup UNION {{<<"var", "int", n, "=", "1">>,
                 <<"var", n, "=", "1">>,
                 <<n, "=", "1">>,
                 <<"f", "(", n, ")">>,
                 <<"f", "(", n, ")", "=>", n>>,
                 <<"y", ":=", "c", "?", n, ":", "1">>} : n \in DeclNames}

\* '\n'.join(ls)
RECURSIVE JoinLines(_)
JoinLines(ls) ==
    IF Len(ls) = 1 THEN ls[1]
    ELSE ls[1] \o <<NL>> \o JoinLines(Tail(ls))

DeclDocuments ==
    {JoinLines(ls) : ls \in UNION {[1..k -> LineShapes] : k \in 1..MaxDeclLines}}

\* if stripped and not stripped.startswith('//')
CodeLine(line) == line # <<>> /\ ~StartsWith(line, <<"//">>)

\* stripped.startswith('var '): the word var and a blank, so a token more
StartsWithVar(line) == Len(line) >= 2 /\ line[1] = "var"

\* re.match(r'var\s+\w+\s+(\w+)\s*=', stripped): the names it captures
VarMatch(line) ==
    IF /\ Len(line) >= 4
       /\ line[1] = "var"
       /\ IsWord(line[2])
       /\ IsWord(line[3])
       /\ line[4] \in EqualsFirst
    THEN {line[3]}
    ELSE {}

\* re.match(r'^\s*(\w+)\s*[:=]', stripped): the names it captures
AssignMatch(line) ==
    IF Len(line) >= 2 /\ IsWord(line[1]) /\ line[2] \in ColonOrEquals
    THEN {line[1]}
    ELSE {}

AlreadyDefinedMsg(line, var_name, first) ==
    Finding("is already defined", line, var_name, first)

\* declared_vars[var_name] = n
Put(dv, var_name, n) ==
    [m \in DOMAIN dv \cup {var_name} |-> IF m = var_name THEN n ELSE dv[m]]

\* lines 330-333: a var declaration of var_name on line n
RecordVar(dv, var_name, n) ==
    IF var_name \in DOMAIN dv
    THEN [dv |-> dv, errs |-> <<AlreadyDefinedMsg(n, var_name, dv[var_name])>>]
    ELSE [dv |-> Put(dv, var_name, n), errs |-> <<>>]

\* lines 339-344: an assignment to var_name on line n
RecordAssignAlways(dv, var_name, n) ==
    [dv |-> Put(dv, var_name, n), errs |-> <<>>]
RecordAssign(dv, var_name, n) ==
    IF var_name \in DOMAIN dv
    THEN [dv |-> dv, errs |-> <<>>]
    ELSE [dv |-> Put(dv, var_name, n), errs |-> <<>>]

\* The body of the loop of lines 322-344 for line n.
DeclareLine(dv, line, n) ==
    IF ~CodeLine(line) THEN [dv |-> dv, errs |-> <<>>]
    ELSE IF StartsWithVar(line)
    THEN IF VarMatch(line) # {}
         THEN RecordVar(dv, CHOOSE v \in VarMatch(line) : TRUE, n)
         ELSE [dv |-> dv, errs |-> <<>>]
    ELSE IF AssignMatch(line) # {}
    THEN RecordAssign(dv, CHOOSE v \in AssignMatch(line) : TRUE, n)
    ELSE [dv |-> dv, errs |-> <<>>]

DeclaredLine ==
    /\ pc = "declared"
    /\ i <= Len(lines)
    /\ LET r == DeclareLine(declared_vars, lines[i], i)
       IN  /\ declared_vars' = r.dv
           /\ errors' = errors \o r.errs
    /\ i' = i + 1
    /\ UNCHANGED <<doc, func, process, pc, j, stack, warnings, tracker>>

\* the pass is over; the forward-reference check starts at line 1
DeclaredEnd ==
    /\ pc = "declared"
    /\ i > Len(lines)
    /\ pc' = "undeclared"
    /\ i' = 1
    /\ UNCHANGED <<doc, func, process, j, stack, errors, warnings, tracker,
                   declared_vars>>

\* common_undeclared_patterns, in the order of the list
WatchList ==
    <<"minCycleLength", "maxCycleLength", "currCycleBarCount",
      "currCycleLow", "currCycleHigh">>

UndeclaredMsg(line, var_name) ==
    Finding("Undeclared identifier", line, var_name, 0)

\* '=>' in stripped and re.match(r'^(\w+)\s*\([^)]*\)\s*=>', stripped)
SignatureLine(line) ==
    /\ \E k \in 1..Len(line) : line[k] = "=>"
    /\ Len(line) >= 4
    /\ IsWord(line[1])
    /\ line[2] = "("
    /\ \E k \in 3..(Len(line) - 1) :
          /\ line[k] = ")"
          /\ \A m \in 3..(k - 1) : line[m] # ")"
          /\ line[k + 1] = "=>"

\* re.search(rf'\b{var_name}\b', stripped)
Mentions(line, var_name) == \E k \in 1..Len(line) : line[k] = var_name

\* re.search(rf'\b{var_name}\s*[:=]', line) or
\* re.search(rf'\bvar\s+\w+\s+{var_name}\s*=', line)
DeclaresText(line, var_name) ==
    \/ \E k \in 1..(Len(line) - 1) :
          line[k] = var_name /\ line[k + 1] \in ColonOrEquals
    \/ \E k \in 1..(Len(line) - 3) :
          /\ line[k] = "var"
          /\ IsWord(line[k + 1])
          /\ line[k + 2] = var_name
          /\ line[k + 3] \in EqualsFirst

\* for j in range(i): lines[j], with the 1-based i: lines 1..i
SearchedStrictlyBefore(n) == 1..(n - 1)
Searched(n) == 1..n

DeclaredBefore(ls, n, var_name) ==
    \E m \in Searched(n) : DeclaresText(ls[m], var_name)

\* The errors of the patterns k.. of the watch list for line n.
RECURSIVE WatchFindings(_, _, _)
WatchFindings(ls, n, k) ==
    IF k > Len(WatchList) THEN <<>>
    ELSE (IF Mentions(ls[n], WatchList[k])
             /\ ~DeclaredBefore(ls, n, WatchList[k])
          THEN <<UndeclaredMsg(n, WatchList[k])>>
          ELSE <<>>) \o WatchFindings(ls, n, k + 1)

\* The body of the loop of lines 357-374 for line n.
UndeclaredFindings(ls, n) ==
    IF CodeLine(ls[n]) /\ ~SignatureLine(ls[n])
    THEN WatchFindings(ls, n, 1)
    ELSE <<>>

UndeclaredLine ==
    /\ pc = "undeclared"
    /\ i <= Len(lines)
    /\ errors' = errors \o UndeclaredFindings(lines, i)
    /\ i' = i + 1
    /\ UNCHANGED <<doc, func, process, pc, j, stack, warnings, tracker,
                   declared_vars>>

UndeclaredEnd ==
    /\ pc = "undeclared"
    /\ i > Len(lines)
    /\ pc' = "calls"
    /\ i' = 1
    /\ UNCHANGED <<doc, func, process, j, stack, errors, warnings, tracker,
                   declared_vars>>

InitDecl ==
    /\ content \in DeclDocuments
    /\ pc = "declared"
    /\ InitScan

NextDecl ==
    \/ DeclaredLine
    \/ DeclaredEnd
    \/ UndeclaredLine
    \/ UndeclaredEnd

SpecDecl == InitDecl /\ [][NextDecl]_vars

---------------------------------------------------------------------------
(* What the declaration passes have to find, read off the document alone.  *)

DeclPassDone == pc \in {"undeclared", "calls"}
ForwardPassDone == pc = "calls"

Words(line) ==
    {line[k] : k \in 1..Len(line)}
        \ {"=", ":=", "=>", ":", "?", "(", ")", "//", "int[]", NL}
AllWords == UNION {Words(lines[k]) : k \in 1..Len(lines)}

\* Neither blank nor a comment.
Statement(line) == line # <<>> /\ line[1] # "//"

\* `var <type> <name> = ...`, type and name being words
TypedVarOf(line, n) ==
    /\ Len(line) >= 4
    /\ line[1] = "var"
    /\ line[2] \in Words(line)
    /\ line[3] = n
    /\ line[4] = "="

\* `<name> = ...` or `<name> := ...`
PlainAssignOf(line, n) ==
    /\ Len(line) >= 2
    /\ line[1] = n
    /\ n \in Words(line)
    /\ line[2] \in {"=", ":="}
    /\ ~(line[1] = "var" /\ Len(line) >= 2)

\* The lines that declare n, and the first of them.
Decls(n) ==
    {k \in 1..Len(lines) :
        Statement(lines[k])
        /\ (TypedVarOf(lines[k], n) \/ PlainAssignOf(lines[k], n))}
FirstDecl(n) == CHOOSE k \in Decls(n) : \A m \in Decls(n) : k <= m

ReportedDuplicate(line, n, first) ==
    [kind |-> "is already defined", line |-> line, what |-> n, ref |-> first]
IsAlreadyDefined(f) == f.kind = "is already defined"

\* The 'already defined' errors lines 1..k call for: one for every typed
\* var line of a name first declared on an earlier line.
RECURSIVE DuplicateFindings(_)
DuplicateFindings(k) ==
    IF k = 0 THEN <<>>
    ELSE DuplicateFindings(k - 1) \o
         (IF \E n \in AllWords :
                /\ Statement(lines[k])
                /\ TypedVarOf(lines[k], n)
                /\ FirstDecl(n) < k
          THEN <<ReportedDuplicate(k, lines[k][3], FirstDecl(lines[k][3]))>>
          ELSE <<>>)

C7_StepKeepsFirstLine ==
    pc = "declared" =>
        \A n \in DOMAIN declared_vars :
            n \in DOMAIN declared_vars' /\ declared_vars'[n] = declared_vars[n]

C7_FirstLinesAndDuplicates ==
    DeclPassDone =>
        /\ \A n \in AllWords :
              IF Decls(n) # {}
              THEN n \in DOMAIN declared_vars
                   /\ declared_vars[n] = FirstDecl(n)
              ELSE n \notin DOMAIN declared_vars
        /\ SelectSeq(errors, IsAlreadyDefined) = DuplicateFindings(Len(lines))

(* C7: the first line that declares a name, by `var <type> <name> =` or by *)
(* a plain assignment, is recorded as the name's line and no later line    *)
(* changes it; every later `var <type> <name> =` line of a recorded name   *)
(* appends an 'already defined' error naming the recorded first line, and  *)
(* a later plain assignment appends nothing.                               *)
C7_FirstDeclarationWins ==
    [][C7_StepKeepsFirstLine]_vars /\ [] C7_FirstLinesAndDuplicates

\* `var int x = 1`, then `x = 1`, then `var int x = 1` again: one error,
\* at line 3, naming line 1.
C7_Witness ==
    /\ pc = "undeclared"
    /\ Len(lines) = 3
    /\ lines[1] = <<"var", "int", "x", "=", "1">>
    /\ lines[2] = <<"x", "=", "1">>
    /\ lines[3] = lines[1]
    /\ errors = <<ReportedDuplicate(3, "x", 1)>>
    /\ declared_vars["x"] = 1

---------------------------------------------------------------------------
\* The names the forward-reference check watches.
Watched ==
    {"minCycleLength", "maxCycleLength", "currCycleBarCount",
     "currCycleLow", "currCycleHigh"}

\* `name(...) =>`: a function signature at the start of the line.
SignatureShape(line) ==
    /\ Len(line) >= 4
    /\ line[1] \in Words(line)
    /\ line[2] = "("
    /\ LET close == CHOOSE k \in 3..(Len(line) + 1) :
                        /\ k <= Len(line) => line[k] = ")"
                        /\ \A m \in 3..(k - 1) : line[m] # ")"
       IN  close < Len(line) /\ line[close + 1] = "=>"

\* The name is used on a line the check looks at.
UsedOn(k, w) ==
    /\ Statement(lines[k])
    /\ ~SignatureShape(lines[k])
    /\ \E q \in 1..Len(lines[k]) : lines[k][q] = w

\* The text of the line holds the name followed by `:` or `=`, as every
\* var declaration of the name and every assignment to it does.
NameThenColonOrEquals(line, w) ==
    \E q \in 1..(Len(line) - 1) :
        line[q] = w /\ line[q + 1] \in {"=", ":=", "=>", ":"}

ReportedUndeclared(line, w) ==
    [kind |-> "Undeclared identifier", line |-> line, what |-> w, ref |-> 0]
IsUndeclared(f) == f.kind = "Undeclared identifier"

---------------------------------------------------------------------------
(* Texts spelled out: what `in`, \w, \s and \b of the patterns see.        *)

\* [a-zA-Z0-9_]
WordChars ==
    {"a", "b", "c", "d", "e", "f", "g", "h", "i", "j", "k", "l", "m", "n",
     "o", "p", "q", "r", "s", "t", "u", "v", "w", "x", "y", "z",
     "A", "B", "C", "D", "E", "F", "G", "H", "I", "J", "K", "L", "M", "N",
     "O", "P", "Q", "R", "S", "T", "U", "V", "W", "X", "Y", "Z",
     "0", "1", "2", "3", "4", "5", "6", "7", "8", "9", "_"}

\* the text reads pat from position p on
At(s, p, pat) ==
    /\ p >= 1
    /\ p + Len(pat) - 1 <= Len(s)
    /\ \A k \in 1..Len(pat) : s[p + k - 1] = pat[k]

\* pat in s
Has(s, pat) == \E p \in 1..(Len(s) - Len(pat) + 1) : At(s, p, pat)

\* \b before position p: a word character on exactly one side
Boundary(s, p) ==
    (p - 1 >= 1 /\ s[p - 1] \in WordChars)
        # (p <= Len(s) /\ s[p] \in WordChars)

\* \s* from position p on: the positions it can end before
RECURSIVE SkipSpace(_, _)
SkipSpace(s, p) ==
    IF p <= Len(s) /\ s[p] \in Whitespace
    THEN {p} \cup SkipSpace(s, p + 1)
    ELSE {p}

\* The text of a sequence of pieces.
RECURSIVE Flat(_)
Flat(ps) == IF ps = <<>> THEN <<>> ELSE Head(ps) \o Flat(Tail(ps))

---------------------------------------------------------------------------
(* Math namespace: check_basic_syntax, lines 196-210.                      *)

math_functions ==
    << <<"s", "i", "n">>, <<"c", "o", "s">>, <<"t", "a", "n">>,
       <<"a", "s", "i", "n">>, <<"a", "c", "o", "s">>, <<"a", "t", "a", "n">>,
       <<"s", "i", "n", "h">>, <<"c", "o", "s", "h">>, <<"t", "a", "n", "h">>,
       <<"s", "q", "r", "t">>, <<"l", "o", "g">>, <<"l", "o", "g", "1", "0">>,
       <<"e", "x", "p">>, <<"p", "o", "w">>, <<"a", "b", "s">>,
       <<"r", "o", "u", "n", "d">>, <<"c", "e", "i", "l">>,
       <<"f", "l", "o", "o", "r">>, <<"m", "a", "x">>, <<"m", "i", "n">> >>

\* pattern = rf'\b{func}\s*\(': the nine characters around the name
MathPattern(f) == <<"\\", "b">> \o f \o <<"\\", "s", "*", "\\", "(">>

\* The warnings of function f for lines n.. (lines 206-210).
RECURSIVE MathFindings(_, _, _)
MathFindings(ls, f, n) ==
    LET
        \* 'math.' + func
        MathPrefixed(name) == <<"m", "a", "t", "h", ".">> \o name
        \* (strategy|color|label|table|plot|fill)
        OtherNamespaces ==
            {<<"s", "t", "r", "a", "t", "e", "g", "y">>, <<"c", "o", "l", "o", "r">>,
             <<"l", "a", "b", "e", "l">>, <<"t", "a", "b", "l", "e">>,
             <<"p", "l", "o", "t">>, <<"f", "i", "l", "l">>}
        \* re.search(r'\b(strategy|color|label|table|plot|fill)\.' + func, line)
        OtherNamespaced(line, name) ==
            \E p \in 1..Len(line) : \E ns \in OtherNamespaces :
                Boundary(line, p) /\ At(line, p, ns \o <<".">> \o name)
        MathMsg(line, name) == Finding("should use math.", line, name, 0)
        \* if pattern in line: the pattern is looked for as it is written
        MathCallFound(line, name) == Has(line, MathPattern(name))
    IN  IF n > Len(ls) THEN <<>>
        ELSE (IF /\ MathCallFound(ls[n], f)
                 /\ ~StartsWith(Strip(ls[n]), LineComment)
                 /\ ~Has(ls[n], MathPrefixed(f))
                 /\ ~OtherNamespaced(ls[n], f)
              THEN <<MathMsg(n, f)>>
              ELSE <<>>) \o MathFindings(ls, f, n + 1)

\* one turn of `for func in math_functions`: every line of the file
MathFunction ==
    /\ pc = "math"
    /\ func <= Len(math_functions)
    /\ warnings' = warnings \o MathFindings(lines, math_functions[func], 1)
    /\ func' = func + 1
    /\ UNCHANGED <<doc, process, pc, i, j, stack, errors, tracker,
                   declared_vars>>

MathEnd ==
    /\ pc = "math"
    /\ func > Len(math_functions)
    /\ pc' = "format_time"
    /\ UNCHANGED <<doc, process, func, i, j, stack, errors, warnings,
                   tracker, declared_vars>>

MathDocuments ==
    LET
        \* The pieces the documents of this check are made of; the last two are
        \* the lines `y = sin(x)` and `y = math.sin(x)`.
        BareSinLine == <<"y", " ", "=", " ", "s", "i", "n", "(", "x", ")">>
        MathSinLine ==
            <<"y", " ", "=", " ", "m", "a", "t", "h", ".", "s", "i", "n", "(", "x",
              ")">>
        MathPieces ==
            {<<"x">>, <<" ">>, <<"(">>, <<NL>>, <<"/", "/">>,
             <<"s", "i", "n">>, <<"m", "a", "t", "h", ".">>,
             <<"s", "t", "r", "a", "t", "e", "g", "y", ".">>,
             MathPattern(<<"s", "i", "n">>), BareSinLine, MathSinLine}
    IN  {Flat(ps) : ps \in SeqsUpTo(MathPieces, MaxMathLen)}

InitMath ==
    /\ content \in MathDocuments
    /\ pc = "math"
    /\ InitScan

NextMath ==
    \/ MathFunction
    \/ MathEnd

SpecMath == InitMath /\ [][NextMath]_vars

---------------------------------------------------------------------------
(* What the math rule has to find, read off the document alone.            *)

MathCheckDone == pc = "format_time"

ListedMathFunctions == {math_functions[k] : k \in 1..Len(math_functions)}

\* A call of f starts at position p of the line: the name as a whole word,
\* then `(`, blanks allowed in between.
CallAt(line, p, f) ==
    /\ At(line, p, f)
    /\ ~(p > 1 /\ line[p - 1] \in WordChars)
    /\ \E q \in (p + Len(f))..Len(line) :
          /\ line[q] = "("
          /\ \A m \in (p + Len(f))..(q - 1) : line[m] = " "

\* The call at p is written under a namespace: a name and a dot before it.
Namespaced(line, p) == p > 2 /\ line[p - 1] = "." /\ line[p - 2] \in WordChars

\* The line calls f without any namespace.
BareCall(line, f) ==
    \E p \in 1..Len(line) : CallAt(line, p, f) /\ ~Namespaced(line, p)

\* Every call of f on the line is written math.f.
OnlyMathCalls(line, f) ==
    \A p \in 1..Len(line) :
        CallAt(line, p, f) => (p > 5 /\ At(line, p - 5, <<"m", "a", "t", "h", ".">>))

CommentLine(line) ==
    \E p \in 1..(Len(line) - 1) :
        /\ line[p] = "/" /\ line[p + 1] = "/"
        /\ \A q \in 1..(p - 1) : line[q] = " "

WarnedMath(line, f) ==
    [kind |-> "should use math.", line |-> line, what |-> f, ref |-> 0]

(* C11: a non-comment line that calls a listed math function without a     *)
(* namespace (as `y = sin(x)` does) gets exactly one 'should use           *)
(* math.<func>' warning for that line and function, and a line whose calls *)
(* of the function are all written math.<func> gets none.                  *)
C11_BareMathCallWarned ==
    MathCheckDone =>
        \A n \in 1..Len(lines) : \A f \in ListedMathFunctions :
            /\ (~CommentLine(lines[n]) /\ BareCall(lines[n], f)) =>
                  Cardinality({k \in 1..Len(warnings) :
                                  warnings[k] = WarnedMath(n, f)}) = 1
            /\ (\E p \in 1..Len(lines[n]) : CallAt(lines[n], p, f))
                  /\ OnlyMathCalls(lines[n], f) =>
                  ~Among(warnings, WarnedMath(n, f))

---------------------------------------------------------------------------
(* Required declaration: check_basic_syntax, lines 81-83.                  *)

\* (?:indicator|strategy)
DeclarationWords ==
    LET
        IndicatorWord == <<"i", "n", "d", "i", "c", "a", "t", "o", "r">>
        StrategyWord == <<"s", "t", "r", "a", "t", "e", "g", "y">>
    IN  {IndicatorWord, StrategyWord}

\* re.search(r'(?:indicator|strategy)\s*\(', content)
HasDeclarationCallNoSpace(s) ==
    \E p \in 1..Len(s) : \E w \in DeclarationWords :
        At(s, p, w \o <<"(">>)
HasDeclarationCall(s) ==
    \E p \in 1..Len(s) : \E w \in DeclarationWords :
        /\ At(s, p, w)
        /\ \E q \in SkipSpace(s, p + Len(w)) : q <= Len(s) /\ s[q] = "("

\* The errors of lines 82-83.
DeclarationFindings(s) ==
    LET
        NoDeclarationMsg ==
            Finding("No indicator or strategy declaration found", 0, "", 0)
    IN  IF ~HasDeclarationCall(s) THEN <<NoDeclarationMsg>> ELSE <<>>

Declaration ==
    /\ pc = "declaration"
    /\ errors' = errors \o DeclarationFindings(content)
    /\ pc' = "comments"
    /\ UNCHANGED <<doc, func, process, i, j, stack, warnings, tracker,
                   declared_vars>>

DeclarationDocuments ==
    LET
        \* The pieces the documents of this check are made of.
        DeclarationPieces ==
            DeclarationWords \cup {<<"(">>, <<" ">>, <<NL>>, <<"x">>}
    IN  {Flat(ps) : ps \in SeqsUpTo(DeclarationPieces, MaxDeclarationLen)}

InitDeclaration ==
    /\ content \in DeclarationDocuments
    /\ pc = "declaration"
    /\ InitScan

NextDeclaration == Declaration

SpecDeclaration == InitDeclaration /\ [][NextDeclaration]_vars

---------------------------------------------------------------------------
(* What the required-declaration check has to say, read off the document.  *)

DeclarationCheckDone == pc = "comments"

ReportedNoDeclaration ==
    [kind |-> "No indicator or strategy declaration found", line |-> 0,
     what |-> "", ref |-> 0]

\* The text t holds the text u.
HoldsText(t, u) ==
    \E p \in 1..(Len(t) - Len(u) + 1) : SubSeq(t, p, p + Len(u) - 1) = u

\* The text t holds the word w and, after whitespace only (or nothing),
\* `(`.
WordSpaceParen(t, w) ==
    \E p \in 1..(Len(t) - Len(w)) : \E q \in (p + Len(w))..Len(t) :
        /\ SubSeq(t, p, p + Len(w) - 1) = w
        /\ t[q] = "("
        /\ \A m \in (p + Len(w))..(q - 1) : t[m] \in {" ", NL}

\* The text t with the text u put in after its first p characters.
Inserted(t, p, u) == SubSeq(t, 1, p) \o u \o SubSeq(t, p + 1, Len(t))

IndicatorCall == <<"i", "n", "d", "i", "c", "a", "t", "o", "r", "(">>
StrategyCall == <<"s", "t", "r", "a", "t", "e", "g", "y", "(">>
IndicatorName == <<"i", "n", "d", "i", "c", "a", "t", "o", "r">>
StrategyName == <<"s", "t", "r", "a", "t", "e", "g", "y">>

(* C12 as stated: a document that holds neither `indicator(` nor           *)
(* `strategy(` gets exactly one 'No indicator or strategy declaration      *)
(* found' error; a document that holds one of them gets none, so putting   *)
(* `indicator(` anywhere into a document takes the error away and leaves   *)
(* the other findings of the check as they are.                            *)
C12_DeclarationRequired ==
    DeclarationCheckDone =>
        /\ errors =
              IF HoldsText(content, IndicatorCall)
                 \/ HoldsText(content, StrategyCall)
              THEN <<>>
              ELSE <<ReportedNoDeclaration>>
        /\ warnings = <<>>
        /\ \A p \in 0..Len(content) :
              DeclarationFindings(Inserted(content, p, IndicatorCall)) = <<>>

(* C12 as amended: a document in which neither `indicator` nor `strategy`  *)
(* is followed, at once or after whitespace only, by `(` gets exactly one  *)
(* 'No indicator or strategy declaration found' error; a document in which *)
(* one of them is gets none, so putting `indicator(` anywhere into a       *)
(* document takes the error away; the check appends nothing else.          *)
C12_DeclarationRequiredAmended ==
    DeclarationCheckDone =>
        /\ errors =
              IF WordSpaceParen(content, IndicatorName)
                 \/ WordSpaceParen(content, StrategyName)
              THEN <<>>
              ELSE <<ReportedNoDeclaration>>
        /\ warnings = <<>>
        /\ \A p \in 0..Len(content) :
              DeclarationFindings(Inserted(content, p, IndicatorCall)) = <<>>

\* `strategy`, a blank, a line end and `(`: no `strategy(` in the text, and
\* no error.
C12_Witness ==
    /\ DeclarationCheckDone
    /\ content = <<"s", "t", "r", "a", "t", "e", "g", "y", " ", NL, "(">>
    /\ errors = <<>>

---------------------------------------------------------------------------
(* The version check of lines 66-79 once more, on a text spelled out in    *)
(* characters, as the runs of the whole of check_basic_syntax need it.     *)

VersionDirective == <<"/", "/", "@", "v", "e", "r", "s", "i", "o", "n">>

\* \d
DecimalDigits == {"0", "1", "2", "3", "4", "5", "6", "7", "8", "9"}

\* re.search(r'//@version=(\d+)', content): the places it matches
DirectiveMatches(s) ==
    {p \in 1..Len(s) :
        /\ At(s, p, VersionDirective \o <<"=">>)
        /\ p + Len(VersionDirective) + 1 <= Len(s)
        /\ s[p + Len(VersionDirective) + 1] \in DecimalDigits}

\* int(version_match.group(1)) of the leftmost match
DirectiveNumber(s) ==
    LET
        DecimalValue(d) ==
            CASE d = "0" -> 0 [] d = "1" -> 1 [] d = "2" -> 2 [] d = "3" -> 3
              [] d = "4" -> 4 [] d = "5" -> 5 [] d = "6" -> 6 [] d = "7" -> 7
              [] d = "8" -> 8 [] d = "9" -> 9
        \* (\d+) from position p on: the number its longest run of digits writes,
        \* after the number n of the digits before it
        RECURSIVE DecimalRun(_, _, _)
        DecimalRun(t, p, n) ==
            IF p <= Len(t) /\ t[p] \in DecimalDigits
            THEN DecimalRun(t, p + 1, 10 * n + DecimalValue(t[p]))
            ELSE n
    IN  DecimalRun(s, Min(DirectiveMatches(s)) + Len(VersionDirective) + 1, 0)

\* if not content.strip().startswith('//@version'): warning
TextVersionStart ==
    /\ pc = "version"
    /\ warnings' = IF ~StartsWith(Strip(content), VersionDirective)
                   THEN Append(warnings, ShouldStartMsg)
                   ELSE warnings
    /\ pc' = "version_number"
    /\ UNCHANGED <<doc, func, process, i, j, stack, errors, tracker,
                   declared_vars>>

TextVersionNumber ==
    LET
        \* The warnings of lines 71-79.
        TextVersionFindings(s) ==
            IF DirectiveMatches(s) # {}
            THEN IF IsOutdated(DirectiveNumber(s))
                 THEN <<OutdatedMsg(DirectiveNumber(s))>>
                 ELSE IF IsNewer(DirectiveNumber(s))
                 THEN <<NewerMsg(DirectiveNumber(s))>>
                 ELSE <<>>
            ELSE <<UndeterminedMsg>>
    IN  /\ pc = "version_number"
        /\ warnings' = warnings \o TextVersionFindings(content)
        /\ pc' = "declaration"
        /\ UNCHANGED <<doc, func, process, i, j, stack, errors, tracker,
                       declared_vars>>

---------------------------------------------------------------------------
(* Multiline constructs: check_basic_syntax, lines 85-97.                  *)

\* if '/*' in content or '*/' in content: error
Comments ==
    LET
        MultilineCommentMsg == Finding("Multiline comments detected", 0, "", 0)
    IN  /\ pc = "comments"
        /\ errors' = IF Has(content, <<"/", "*">>) \/ Has(content, <<"*", "/">>)
                     THEN Append(errors, MultilineCommentMsg)
                     ELSE errors
        /\ pc' = "multiline_array"
        /\ UNCHANGED <<doc, func, process, i, j, stack, warnings, tracker,
                       declared_vars>>

MultilineArray ==
    LET
        MultilineArrayMsg == Finding("Multiline array in function call detected", 0, "", 0)
        OptionsEquals == <<"o", "p", "t", "i", "o", "n", "s", "=">>
        \* re.search(r'options=\s*\[[^\]]*\n', content)
        MultilineArrayFound(s) ==
            \E p \in 1..Len(s) :
                /\ At(s, p, OptionsEquals)
                /\ \E q \in SkipSpace(s, p + Len(OptionsEquals)) :
                      /\ q <= Len(s) /\ s[q] = "["
                      /\ \E r \in (q + 1)..Len(s) :
                            /\ s[r] = NL
                            /\ \A m \in (q + 1)..(r - 1) : s[m] # "]"
    IN  /\ pc = "multiline_array"
        /\ errors' = IF MultilineArrayFound(content)
                     THEN Append(errors, MultilineArrayMsg)
                     ELSE errors
        /\ pc' = "multiline_param"
        /\ UNCHANGED <<doc, func, process, i, j, stack, warnings, tracker,
                       declared_vars>>

\* the warning of lines 95-97; the ternary loop starts at line 1
MultilineParam ==
    LET
        ComplexCallMsg == Finding("Complex multiline function call detected", 0, "", 0)
        \* re.search(r'\w+\([^)]*\n.*\w+.*\n.*[^)]*\)', content): a word character
        \* and `(` at a; no `)` up to a line end at n1; a word character on the
        \* line that follows, which ends at n2; then, from some m on, no `)` up to
        \* a `)` at c, and no line end between n2 and m
        ComplexCallFound(s) ==
            \E a \in 1..Len(s) :
                /\ s[a] \in WordChars
                /\ a + 1 <= Len(s) /\ s[a + 1] = "("
                /\ \E n1 \in (a + 2)..Len(s) :
                      /\ s[n1] = NL
                      /\ \A m \in (a + 2)..(n1 - 1) : s[m] # ")"
                      /\ \E n2 \in (n1 + 1)..Len(s) :
                            /\ s[n2] = NL
                            /\ \A m \in (n1 + 1)..(n2 - 1) : s[m] # NL
                            /\ \E m \in (n1 + 1)..(n2 - 1) : s[m] \in WordChars
                            /\ \E c \in (n2 + 1)..Len(s) : \E m \in (n2 + 1)..c :
                                  /\ s[c] = ")"
                                  /\ \A k \in (n2 + 1)..(m - 1) : s[k] # NL
                                  /\ \A k \in m..(c - 1) : s[k] # ")"
    IN  /\ pc = "multiline_param"
        /\ warnings' = IF ComplexCallFound(content)
                       THEN Append(warnings, ComplexCallMsg)
                       ELSE warnings
        /\ pc' = "ternary"
        /\ i' = 1
        /\ UNCHANGED <<doc, func, process, j, stack, errors, tracker,
                       declared_vars>>

---------------------------------------------------------------------------
(* check_basic_syntax from the bracket scan to the multiline-call tracker, *)
(* lines 47-146, on texts of parentheses.                                  *)

InitSyntax ==
    /\ content \in SeqsUpTo(ParenAlphabet, MaxSyntaxLen)
    /\ pc = "brackets"
    /\ InitScan

NextSyntax ==
    \/ BracketOpen
    \/ BracketUnexpected
    \/ BracketClose
    \/ BracketOther
    \/ BracketNextLine
    \/ BracketEnd
    \/ TextVersionStart
    \/ TextVersionNumber
    \/ Declaration
    \/ Comments
    \/ MultilineArray
    \/ MultilineParam
    \/ TernaryLine
    \/ TernaryEnd
    \/ ParenSkip
    \/ ParenLine
    \/ ParenEnd

SpecSyntax == InitSyntax /\ [][NextSyntax]_vars

---------------------------------------------------------------------------
(* What the two scans have to say of an open parenthesis.                  *)

ReportedUnclosedParen(line, start) ==
    [kind |-> "Unclosed parenthesis", line |-> line, what |-> "",
     ref |-> start]

OnlyParentheses ==
    \A p \in 1..Len(content) : content[p] \notin {"[", "]", "{", "}"}

\* Neither blank nor a comment: the lines the tracker counts.
Counted(n) ==
    \E p \in 1..Len(lines[n]) :
        /\ lines[n][p] # " "
        /\ \A q \in 1..(p - 1) : lines[n][q] = " "
        /\ ~(lines[n][p] = "/" /\ p < Len(lines[n]) /\ lines[n][p + 1] = "/")

HowMany(s, c) == Cardinality({q \in 1..Len(s) : s[q] = c})

RECURSIVE HowManyCounted(_, _)
HowManyCounted(n, c) ==
    IF n = 0 THEN 0
    ELSE HowManyCounted(n - 1, c)
         + (IF Counted(n) THEN HowMany(lines[n], c) ELSE 0)

BothReported ==
    /\ Cardinality({k \in 1..Len(errors) :
                       errors[k].kind = "Unclosed bracket"}) = 1
    /\ Cardinality({k \in 1..Len(errors) :
                       errors[k].kind = "Unclosed parenthesis"}) = 1

(* C15 as stated: in a document whose only delimiters are parentheses and  *)
(* in which some `(` on a non-blank, non-comment line is never closed by a *)
(* later `)`, the run has both an 'Unclosed bracket' error of the bracket  *)
(* scan and an 'Unclosed parenthesis' error of the multiline-call tracker. *)
C15_BothScansReport ==
    (TrackerDone /\ OnlyParentheses
       /\ \E p \in StillOpen : content[p] = "(" /\ Counted(LineOf(p)))
      => BothReported

(* C15 as amended: in a document whose only delimiters are parentheses and *)
(* that has more `(` than `)`, both in the whole text and on its           *)
(* non-blank, non-comment lines taken alone, the run has both an 'Unclosed *)
(* bracket' error of the bracket scan and an 'Unclosed parenthesis' error  *)
(* of the multiline-call tracker: two findings, one of each.               *)
C15_BothScansReportAmended ==
    (TrackerDone /\ OnlyParentheses
       /\ HowMany(content, "(") > HowMany(content, ")")
       /\ HowManyCounted(Len(lines), "(") > HowManyCounted(Len(lines), ")"))
      => BothReported

\* `x(` and `x` below it: the opener of line 1 is reported by the bracket
\* scan for line 1 and by the tracker at the last line, 2.
C15_Witness ==
    /\ TrackerDone
    /\ content = <<"x", "(", NL, "x">>
    /\ Among(errors, ReportedUnclosed(1, "("))
    /\ Among(errors, ReportedUnclosedParen(2, 1))
    /\ Len(errors) = 3

---------------------------------------------------------------------------
(* Reserved keywords and invalid types: check_basic_syntax, lines 148-176. *)

\* re.search(rf'\b{keyword}\s*=', content)
KeywordFound(s, keyword) ==
    \E p \in 1..Len(s) : Boundary(s, p) /\ At(s, p, keyword)
KeywordAssigned(s, keyword) ==
    \E p \in 1..Len(s) :
        /\ Boundary(s, p)
        /\ At(s, p, keyword)
        /\ \E q \in SkipSpace(s, p + Len(keyword)) :
              q <= Len(s) /\ s[q] = "="

Keywords ==
    LET
        reserved_keywords ==
            << <<"r", "a", "n", "g", "e">>, <<"b", "r", "e", "a", "k">>,
               <<"c", "o", "n", "t", "i", "n", "u", "e">>,
               <<"d", "e", "l", "e", "t", "e">>, <<"n", "e", "w">>,
               <<"t", "h", "i", "s">>, <<"s", "u", "p", "e", "r">>,
               <<"c", "l", "a", "s", "s">>,
               <<"i", "n", "t", "e", "r", "f", "a", "c", "e">>,
               <<"e", "x", "t", "e", "n", "d", "s">>,
               <<"i", "m", "p", "l", "e", "m", "e", "n", "t", "s">>,
               <<"p", "u", "b", "l", "i", "c">>,
               <<"p", "r", "i", "v", "a", "t", "e">>,
               <<"p", "r", "o", "t", "e", "c", "t", "e", "d">>,
               <<"s", "t", "a", "t", "i", "c">>, <<"f", "i", "n", "a", "l">>,
               <<"c", "o", "n", "s", "t">>, <<"v", "a", "r">>, <<"i", "f">>,
               <<"e", "l", "s", "e">>, <<"f", "o", "r">>,
               <<"w", "h", "i", "l", "e">>, <<"s", "w", "i", "t", "c", "h">>,
               <<"c", "a", "s", "e">>, <<"d", "e", "f", "a", "u", "l", "t">>,
               <<"t", "r", "y">>, <<"c", "a", "t", "c", "h">>,
               <<"t", "h", "r", "o", "w">>, <<"r", "e", "t", "u", "r", "n">>,
               <<"f", "u", "n", "c", "t", "i", "o", "n">>,
               <<"m", "e", "t", "h", "o", "d">>,
               <<"p", "r", "o", "p", "e", "r", "t", "y">> >>
        ReservedMsg(keyword) == Finding("Reserved keyword", 0, keyword, 0)
        \* The errors of the keywords k.. of the list (lines 157-161).
        RECURSIVE KeywordFindings(_, _)
        KeywordFindings(s, k) ==
            IF k > Len(reserved_keywords) THEN <<>>
            ELSE (IF KeywordAssigned(s, reserved_keywords[k])
                  THEN <<ReservedMsg(reserved_keywords[k])>>
                  ELSE <<>>) \o KeywordFindings(s, k + 1)
    IN  /\ pc = "keywords"
        /\ errors' = errors \o KeywordFindings(content, 1)
        /\ pc' = "types"
        /\ UNCHANGED <<doc, func, process, i, j, stack, warnings, tracker,
                       declared_vars>>

\* re.search(rf'\b{re.escape(invalid_type)}\b', content): the text of the
\* entry between two word boundaries
WholeWord(s, w) ==
    \E p \in 1..Len(s) :
        Boundary(s, p) /\ At(s, p, w) /\ Boundary(s, p + Len(w))

\* lines 178-193 collect global_vars, which nothing reads; the math loop
\* comes next
Types ==
    LET
        \* invalid_types; the tenth entry is written r'string\[\]', backslashes
        \* included
        invalid_types ==
            << <<"i", "n", "t", "6", "4">>, <<"u", "i", "n", "t">>,
               <<"u", "i", "n", "t", "8">>, <<"u", "i", "n", "t", "1", "6">>,
               <<"u", "i", "n", "t", "3", "2">>, <<"u", "i", "n", "t", "6", "4">>,
               <<"b", "y", "t", "e">>, <<"d", "o", "u", "b", "l", "e">>,
               <<"c", "h", "a", "r">>,
               <<"s", "t", "r", "i", "n", "g", "\\", "[", "\\", "]">>,
               <<"b", "o", "o", "l", "e", "a", "n">>,
               <<"I", "n", "t", "e", "g", "e", "r">>, <<"F", "l", "o", "a", "t">>,
               <<"S", "t", "r", "i", "n", "g">>,
               <<"B", "o", "o", "l", "e", "a", "n">> >>
        InvalidTypeMsg(invalid_type) ==
            Finding("Invalid Pine Script data type", 0, invalid_type, 0)
        \* The errors of the types k.. of the list (lines 172-176).
        RECURSIVE TypeFindings(_, _)
        TypeFindings(s, k) ==
            IF k > Len(invalid_types) THEN <<>>
            ELSE (IF WholeWord(s, invalid_types[k])
                  THEN <<InvalidTypeMsg(invalid_types[k])>>
                  ELSE <<>>) \o TypeFindings(s, k + 1)
    IN  /\ pc = "types"
        /\ errors' = errors \o TypeFindings(content, 1)
        /\ pc' = "math"
        /\ UNCHANGED <<doc, func, process, i, j, stack, warnings, tracker,
                       declared_vars>>

---------------------------------------------------------------------------
(* Line rules: check_basic_syntax, lines 212-253.                          *)

\* The loops of lines 214-253, one after the other: the format_time
\* warnings, the plot parameter and random.float errors, the migration
\* warnings.
LineRules ==
    LET
        \* line.strip().startswith('//')
        Commented(line) == StartsWith(Strip(line), LineComment)
        StrFormatTime == 
            <<"s", "t", "r", ".", "f", "o", "r", "m", "a", "t", "_", "t", "i", "m",
              "e">>
        \* str\.format_time\s*\( : the positions right after the `(` it ends with
        FormatTimeCalls(line) ==
            {q + 1 : q \in {q \in 1..Len(line) :
                /\ line[q] = "("
                /\ \E p \in 1..Len(line) :
                      At(line, p, StrFormatTime)
                      /\ q \in SkipSpace(line, p + Len(StrFormatTime))}}
        \* re.search(r'str\.format_time\s*\(\s*time\b', line)
        FormatTimeOfTime(line) ==
            \E a \in FormatTimeCalls(line) : \E r \in SkipSpace(line, a) :
                At(line, r, <<"t", "i", "m", "e">>) /\ Boundary(line, r + 4)
        \* re.search(r'str\.format_time\s*\(\s*[^,)]*time\[', line)
        FormatTimeOfHistory(line) ==
            \E a \in FormatTimeCalls(line) : \E r \in a..Len(line) :
                /\ At(line, r, <<"t", "i", "m", "e", "[">>)
                /\ \A m \in a..(r - 1) : line[m] \notin {",", ")"}
        \* re.search(r'str\.format_time\s*\(\s*[^,)]*\)', line)
        FormatTimeOneArgument(line) ==
            \E a \in FormatTimeCalls(line) : \E c \in a..Len(line) :
                /\ line[c] = ")"
                /\ \A m \in a..(c - 1) : line[m] \notin {",", ")"}
        \* re.search(r'str\.format_time\s*\(\s*math\.round\(', line)
        FormatTimeRounded(line) ==
            \E a \in FormatTimeCalls(line) : \E r \in SkipSpace(line, a) :
                At(line, r, <<"m", "a", "t", "h", ".", "r", "o", "u", "n", "d", "(">>)
        FormatTimeMsg(line, source) ==
            Finding("str.format_time()", line, source, 0)
        \* The warnings of line n (lines 215-223).
        FormatTimeFindings(line, n) ==
            IF Has(line, StrFormatTime \o <<"(">>) /\ ~Commented(line)
            THEN IF FormatTimeOfTime(line)
                 THEN <<FormatTimeMsg(n, "time")>>
                 ELSE IF FormatTimeOfHistory(line)
                 THEN <<FormatTimeMsg(n, "time[]")>>
                 ELSE IF FormatTimeOneArgument(line) /\ ~FormatTimeRounded(line)
                 THEN <<FormatTimeMsg(n, "series int")>>
                 ELSE <<>>
            ELSE <<>>
        \* [^,]+, taken k times from position p on: where the k-th comma is passed
        RECURSIVE AfterArguments(_, _, _)
        AfterArguments(line, p, k) ==
            IF k = 0 THEN {p}
            ELSE UNION {AfterArguments(line, c + 1, k - 1) :
                          c \in {c \in (p + 1)..Len(line) :
                                    /\ line[c] = ","
                                    /\ \A m \in p..(c - 1) : line[m] # ","}}
        Linestyle == <<"l", "i", "n", "e", "s", "t", "y", "l", "e">>
        \* name\(([^,]+,){k}.*linestyle
        PlotParameterFound(line, name, k) ==
            \E p \in 1..Len(line) :
                /\ At(line, p, name \o <<"(">>)
                /\ \E a \in AfterArguments(line, p + Len(name) + 1, k) :
                      \E r \in a..Len(line) : At(line, r, Linestyle)
        \* invalid_plot_params: the call and the number of arguments before `.*`
        invalid_plot_params ==
            << [name |-> <<"h", "l", "i", "n", "e">>, args |-> 3],
               [name |-> <<"p", "l", "o", "t">>, args |-> 2],
               [name |-> <<"p", "l", "o", "t", "c", "a", "n", "d", "l", "e">>, args |-> 5] >>
        PlotParameterMsg(line) ==
            Finding("Invalid plotting function parameter", line, "", 0)
        \* The errors of one pattern: every line (lines 233-235).
        PlotParameterFindings(ls, pattern) ==
            Flat([n \in 1..Len(ls) |->
                    IF PlotParameterFound(ls[n], pattern.name, pattern.args)
                       /\ ~Commented(ls[n])
                    THEN <<PlotParameterMsg(n)>>
                    ELSE <<>>])
        RandomFloatCall == <<"r", "a", "n", "d", "o", "m", ".", "f", "l", "o", "a", "t", "(">>
        RandomFloatMsg(line) == Finding("'random.float()' is not available", line, "", 0)
        \* v6_issues: the old function of each pair
        v6_issues ==
            << <<"s", "e", "c", "u", "r", "i", "t", "y", "(">>, <<"p", "l", "o", "t", "c", "h", "a", "r", "(">>,
               <<"f", "i", "l", "l", "(">>, <<"h", "l", "i", "n", "e", "(">> >>
        MigrationMsg(line, old_func) == Finding("may need to be updated", line, old_func, 0)
        \* The warnings of one pair: every line (lines 251-253).
        MigrationFindings(ls, old_func) ==
            Flat([n \in 1..Len(ls) |->
                    IF Has(ls[n], old_func) /\ ~Commented(ls[n])
                    THEN <<MigrationMsg(n, old_func)>>
                    ELSE <<>>])
    IN  /\ pc = "format_time"
        /\ warnings' = warnings
              \o Flat([n \in 1..Len(lines) |-> FormatTimeFindings(lines[n], n)])
              \o Flat([k \in 1..Len(v6_issues) |->
                          MigrationFindings(lines, v6_issues[k])])
        /\ errors' = errors
              \o Flat([k \in 1..Len(invalid_plot_params) |->
                          PlotParameterFindings(lines, invalid_plot_params[k])])
              \o Flat([n \in 1..Len(lines) |->
                          IF Has(lines[n], RandomFloatCall) /\ ~Commented(lines[n])
                          THEN <<RandomFloatMsg(n)>>
                          ELSE <<>>])
        /\ pc' = "initialization"
        /\ UNCHANGED <<doc, func, process, i, j, stack, tracker, declared_vars>>

---------------------------------------------------------------------------
(* Whole-document heuristics: check_basic_syntax, lines 255-318.           *)

\* zero or more characters of the class C from position p on: the positions
\* the run can end before (one or more: the same without p itself)
RECURSIVE Skip(_, _, _)
Skip(s, p, C) ==
    IF p <= Len(s) /\ s[p] \in C THEN {p} \cup Skip(s, p + 1, C) ELSE {p}

\* The positions of a set, in rising order.
RECURSIVE Rising(_)
Rising(S) ==
    IF S = {} THEN <<>>
    ELSE LET m == CHOOSE x \in S : \A y \in S : x <= y
         IN  <<m>> \o Rising(S \ {m})

\* The whole-document warnings of lines 255-318, one after the other; the
\* declaration loop that follows starts at line 1.
Heuristics ==
    LET
        \* any(op in content for op in ops)
        HasAny(s, ops) == \E op \in ops : Has(s, op)
        array_operations ==
            {<<"a", "r", "r", "a", "y", ".", "p", "u", "s", "h">>,
             <<"a", "r", "r", "a", "y", ".", "p", "o", "p">>,
             <<"a", "r", "r", "a", "y", ".", "g", "e", "t">>,
             <<"a", "r", "r", "a", "y", ".", "s", "e", "t">>,
             <<"a", "r", "r", "a", "y", ".", "s", "i", "z", "e">>}
        label_ops ==
            {<<"l", "a", "b", "e", "l", ".", "n", "e", "w">>,
             <<"l", "a", "b", "e", "l", ".", "d", "e", "l", "e", "t", "e">>,
             <<"l", "a", "b", "e", "l", ".", "g", "e", "t", "_", "t", "e", "x", "t">>,
             <<"l", "a", "b", "e", "l", ".", "s", "e", "t", "_", "t", "e", "x", "t">>}
        box_ops ==
            {<<"b", "o", "x", ".", "n", "e", "w">>,
             <<"b", "o", "x", ".", "d", "e", "l", "e", "t", "e">>,
             <<"b", "o", "x", ".", "g", "e", "t", "_", "l", "e", "f", "t">>,
             <<"b", "o", "x", ".", "s", "e", "t", "_", "l", "e", "f", "t">>}
        table_ops ==
            {<<"t", "a", "b", "l", "e", ".", "n", "e", "w">>,
             <<"t", "a", "b", "l", "e", ".", "d", "e", "l", "e", "t", "e">>,
             <<"t", "a", "b", "l", "e", ".", "c", "e", "l", "l">>,
             <<"t", "a", "b", "l", "e", ".", "s", "e", "t", "_", "c", "e", "l", "l">>}
        UninitializedArrayMsg ==
            Finding("Array operations detected but no array.new()", 0, "", 0)
        UndeclaredObjectMsg(object) ==
            Finding("operations detected - ensure proper variable declarations", 0,
                    object, 0)
        NoStrategyExitMsg == Finding("Strategy entries detected", 0, "", 0)
        ManyLoopsMsg(loop_count) ==
            Finding("High number of loops detected", 0, "", loop_count)
        DivisionMsg(line) == Finding("Suspicious division operation", line, "", 0)
        UnguardedSecurityMsg ==
            Finding("request.security() calls detected but no na()", 0, "", 0)
        GlobalLabelMsg == Finding("Global label variables detected", 0, "", 0)
        ArrayBoundsMsg == Finding("Array access operations detected", 0, "", 0)
        LoopBoundsMsg == Finding("Loop with variable bounds detected", 0, "", 0)
        \* The warnings of lines 256-277.
        InitializationFindings(s) ==
            (IF HasAny(s, array_operations) /\ ~Has(s, <<"a", "r", "r", "a", "y", ".", "n", "e", "w">>)
             THEN <<UninitializedArrayMsg>> ELSE <<>>)
            \o (IF HasAny(s, label_ops) /\ ~Has(s, <<"v", "a", "r", " ", "l", "a", "b", "e", "l">>)
                THEN <<UndeclaredObjectMsg("Label")>> ELSE <<>>)
            \o (IF HasAny(s, box_ops) /\ ~Has(s, <<"v", "a", "r", " ", "b", "o", "x">>)
                THEN <<UndeclaredObjectMsg("Box")>> ELSE <<>>)
            \o (IF HasAny(s, table_ops) /\ ~Has(s, <<"v", "a", "r", " ", "t", "a", "b", "l", "e">>)
                THEN <<UndeclaredObjectMsg("Table")>> ELSE <<>>)
            \o (IF Has(s, <<"s", "t", "r", "a", "t", "e", "g", "y", ".", "e", "n", "t", "r", "y">>)
                   /\ ~Has(s, <<"s", "t", "r", "a", "t", "e", "g", "y", ".", "e", "x", "i", "t">>)
                THEN <<NoStrategyExitMsg>> ELSE <<>>)
        \* content.count(pat), for a pat that cannot overlap itself
        CountText(s, pat) == Cardinality({p \in 1..Len(s) : At(s, p, pat)})
        \* loop_count > 10
        ManyLoops(loop_count) == loop_count > 10
        \* /\s*\(\s*\w+\s*{sign}\s*\w+\s*\) matches from the `/` at position p
        DivisionByGroup(s, p, sign) ==
            /\ s[p] = "/"
            /\ \E a \in Skip(s, p + 1, Whitespace) :
                  /\ a <= Len(s) /\ s[a] = "("
                  /\ \E b \in Skip(s, a + 1, Whitespace) :
                     \E c \in (Skip(s, b, WordChars) \ {b}) :
                     \E d \in Skip(s, c, Whitespace) :
                        /\ d <= Len(s) /\ s[d] = sign
                        /\ \E e \in Skip(s, d + 1, Whitespace) :
                           \E f \in (Skip(s, e, WordChars) \ {e}) :
                           \E g \in Skip(s, f, Whitespace) :
                              g <= Len(s) /\ s[g] = ")"
        \* /\s*\w+\s*$ matches from the `/` at position p; $ is the end of the text
        \* or the place before a newline that ends it
        DivisionAtEnd(s, p) ==
            /\ s[p] = "/"
            /\ \E a \in Skip(s, p + 1, Whitespace) :
               \E b \in (Skip(s, a, WordChars) \ {a}) :
               \E c \in Skip(s, b, Whitespace) :
                  c = Len(s) + 1 \/ (c = Len(s) /\ s[c] = NL)
        \* line_num = content[:match.start()].count('\n') + 1
        LineNumber(s, p) == 1 + Cardinality({q \in 1..(p - 1) : s[q] = NL})
        \* The warnings of one pattern: re.finditer, a match from every `/` that
        \* has one (no match of these patterns holds a second `/`).
        DivisionFindings(s, starts) ==
            [k \in 1..Len(Rising(starts)) |-> DivisionMsg(LineNumber(s, Rising(starts)[k]))]
        \* The warnings of lines 299-308.
        GuardFindings(s) ==
            (IF Has(s, <<"r", "e", "q", "u", "e", "s", "t", ".", "s", "e", "c", "u", "r", "i", "t", "y">>)
                /\ ~Has(s, <<"n", "a", "(">>)
             THEN <<UnguardedSecurityMsg>> ELSE <<>>)
            \o (IF Has(s, <<"v", "a", "r", " ">>) /\ Has(s, <<"l", "a", "b", "e", "l", ".", "n", "e", "w">>)
                THEN <<GlobalLabelMsg>> ELSE <<>>)
            \o (IF Has(s, <<"a", "r", "r", "a", "y", ".", "g", "e", "t", "(">>)
                   /\ ~Has(s, <<"a", "r", "r", "a", "y", ".", "s", "i", "z", "e", "(">>)
                THEN <<ArrayBoundsMsg>> ELSE <<>>)
        \* re.search(r'for\s+\w+\s*=\s*\d+\s+to\s+\w+', content)
        ForToVariable(s) ==
            \E p \in 1..Len(s) :
                /\ At(s, p, <<"f", "o", "r">>)
                /\ \E a \in (Skip(s, p + 3, Whitespace) \ {p + 3}) :
                   \E b \in (Skip(s, a, WordChars) \ {a}) :
                   \E c \in Skip(s, b, Whitespace) :
                      /\ c <= Len(s) /\ s[c] = "="
                      /\ \E d \in Skip(s, c + 1, Whitespace) :
                         \E e \in (Skip(s, d, DecimalDigits) \ {d}) :
                         \E f \in (Skip(s, e, Whitespace) \ {e}) :
                            /\ At(s, f, <<"t", "o">>)
                            /\ \E g \in (Skip(s, f + 2, Whitespace) \ {f + 2}) :
                                  g <= Len(s) /\ s[g] \in WordChars
        \* re.search(r'while\s+\w+\s*<', content)
        WhileLess(s) ==
            \E p \in 1..Len(s) :
                /\ At(s, p, <<"w", "h", "i", "l", "e">>)
                /\ \E a \in (Skip(s, p + 5, Whitespace) \ {p + 5}) :
                   \E b \in (Skip(s, a, WordChars) \ {a}) :
                   \E c \in Skip(s, b, Whitespace) :
                      c <= Len(s) /\ s[c] = "<"
    IN  /\ pc = "initialization"
        /\ warnings' = warnings
              \o InitializationFindings(content)
              \o (IF Has(content, <<"f", "o", "r", " ">>)
                     /\ ManyLoops(CountText(content, <<"f", "o", "r", " ">>))
                  THEN <<ManyLoopsMsg(CountText(content, <<"f", "o", "r", " ">>))>>
                  ELSE <<>>)
              \o DivisionFindings(content,
                    {p \in 1..Len(content) : DivisionByGroup(content, p, "-")})
              \o DivisionFindings(content,
                    {p \in 1..Len(content) : DivisionByGroup(content, p, "+")})
              \o DivisionFindings(content,
                    {p \in 1..Len(content) : DivisionAtEnd(content, p)})
              \o GuardFindings(content)
              \o (IF ForToVariable(content) THEN <<LoopBoundsMsg>> ELSE <<>>)
              \o (IF WhileLess(content) THEN <<LoopBoundsMsg>> ELSE <<>>)
        /\ pc' = "declared"
        /\ i' = 1
        /\ UNCHANGED <<doc, func, process, j, stack, errors, tracker,
                       declared_vars>>

---------------------------------------------------------------------------
(* The declaration passes of lines 320-374 once more, on lines spelled out *)
(* in characters, as the runs of the whole of check_basic_syntax need it.  *)

\* where the longest run of characters of the class C from p on ends
RECURSIVE RunEnd(_, _, _)
RunEnd(s, p, C) ==
    IF p <= Len(s) /\ s[p] \in C THEN RunEnd(s, p + 1, C) ELSE p

TextDeclaredLine ==
    LET
        \* re.match(r'var\s+\w+\s+(\w+)\s*=', stripped): the names it captures
        TextVarMatch(t) ==
            LET a == RunEnd(t, 3 + 1, Whitespace)
                b == RunEnd(t, a, WordChars)
                c == RunEnd(t, b, Whitespace)
                d == RunEnd(t, c, WordChars)
                e == RunEnd(t, d, Whitespace)
            IN  IF /\ At(t, 1, <<"v", "a", "r">>)
                   /\ a > 3 + 1 /\ b > a /\ c > b /\ d > c
                   /\ e <= Len(t) /\ t[e] = "="
                THEN {SubSeq(t, c, d - 1)}
                ELSE {}
        \* re.match(r'^\s*(\w+)\s*[:=]', stripped): the names it captures
        TextAssignMatch(t) ==
            LET a == RunEnd(t, 1, Whitespace)
                b == RunEnd(t, a, WordChars)
                c == RunEnd(t, b, Whitespace)
            IN  IF b > a /\ c <= Len(t) /\ t[c] \in {":", "="}
                THEN {SubSeq(t, a, b - 1)}
                ELSE {}
        \* The body of the loop of lines 322-344 for line n.
        TextDeclareLine(dv, line, n) ==
            LET stripped == Strip(line)
            IN  IF stripped = <<>> \/ StartsWith(stripped, LineComment)
                THEN [dv |-> dv, errs |-> <<>>]
                ELSE IF StartsWith(stripped, <<"v", "a", "r">> \o <<" ">>)
                THEN IF TextVarMatch(stripped) # {}
                     THEN RecordVar(dv, CHOOSE v \in TextVarMatch(stripped) : TRUE, n)
                     ELSE [dv |-> dv, errs |-> <<>>]
                ELSE IF TextAssignMatch(stripped) # {}
                THEN RecordAssign(dv, CHOOSE v \in TextAssignMatch(stripped) : TRUE, n)
                ELSE [dv |-> dv, errs |-> <<>>]
    IN  /\ pc = "declared"
        /\ i <= Len(lines)
        /\ LET r == TextDeclareLine(declared_vars, lines[i], i)
           IN  /\ declared_vars' = r.dv
               /\ errors' = errors \o r.errs
        /\ i' = i + 1
        /\ UNCHANGED <<doc, func, process, pc, j, stack, warnings, tracker>>

\* common_undeclared_patterns, in the order of the list
WatchTexts ==
    << <<"m", "i", "n", "C", "y", "c", "l", "e", "L", "e", "n", "g", "t", "h">>,
       <<"m", "a", "x", "C", "y", "c", "l", "e", "L", "e", "n", "g", "t", "h">>,
       <<"c", "u", "r", "r", "C", "y", "c", "l", "e", "B", "a", "r", "C", "o", "u", "n", "t">>,
       <<"c", "u", "r", "r", "C", "y", "c", "l", "e", "L", "o", "w">>,
       <<"c", "u", "r", "r", "C", "y", "c", "l", "e", "H", "i", "g", "h">> >>

TextUndeclaredLine ==
    LET
        FatArrow == <<"=", ">">>
        \* '=>' in stripped and re.match(r'^(\w+)\s*\([^)]*\)\s*=>', stripped)
        TextSignatureLine(t) ==
            /\ Has(t, FatArrow)
            /\ LET a == RunEnd(t, 1, WordChars)
                   b == RunEnd(t, a, Whitespace)
               IN  /\ a > 1
                   /\ b <= Len(t) /\ t[b] = "("
                   /\ \E c \in (b + 1)..Len(t) :
                         /\ t[c] = ")"
                         /\ \A m \in (b + 1)..(c - 1) : t[m] # ")"
                         /\ At(t, RunEnd(t, c + 1, Whitespace), FatArrow)
        \* re.search(rf'\b{var_name}\s*[:=]', line) or
        \* re.search(rf'\bvar\s+\w+\s+{var_name}\s*=', line)
        TextDeclares(line, var_name) ==
            \/ \E p \in 1..Len(line) :
                  /\ Boundary(line, p)
                  /\ At(line, p, var_name)
                  /\ LET q == RunEnd(line, p + Len(var_name), Whitespace)
                     IN  q <= Len(line) /\ line[q] \in {":", "="}
            \/ \E p \in 1..Len(line) :
                  /\ Boundary(line, p)
                  /\ At(line, p, <<"v", "a", "r">>)
                  /\ \E a \in (Skip(line, p + 3, Whitespace) \ {p + 3}) :
                     \E b \in (Skip(line, a, WordChars) \ {a}) :
                     \E c \in (Skip(line, b, Whitespace) \ {b}) :
                        /\ At(line, c, var_name)
                        /\ LET q == RunEnd(line, c + Len(var_name), Whitespace)
                           IN  q <= Len(line) /\ line[q] = "="
        TextDeclaredBefore(ls, n, var_name) ==
            \E m \in Searched(n) : TextDeclares(ls[m], var_name)
        \* The body of the loop of lines 357-374 for line n.
        TextUndeclaredFindings(ls, n) ==
            LET stripped == Strip(ls[n])
            IN  IF /\ stripped # <<>>
                   /\ ~StartsWith(stripped, LineComment)
                   /\ ~TextSignatureLine(stripped)
                THEN Flat([k \in 1..Len(WatchTexts) |->
                             IF WholeWord(stripped, WatchTexts[k])
                                /\ ~TextDeclaredBefore(ls, n, WatchTexts[k])
                             THEN <<UndeclaredMsg(n, WatchTexts[k])>>
                             ELSE <<>>])
                ELSE <<>>
    IN  /\ pc = "undeclared"
        /\ i <= Len(lines)
        /\ errors' = errors \o TextUndeclaredFindings(lines, i)
        /\ i' = i + 1
        /\ UNCHANGED <<doc, func, process, pc, j, stack, warnings, tracker,
                       declared_vars>>

---------------------------------------------------------------------------
(* Call, array and semicolon hints: check_basic_syntax, lines 376-411.     *)

\* The three loops of lines 378-411, one after the other.
LineHints ==
    LET
        IncompleteCallMsg(line) ==
            Finding("Potential incomplete function call", line, "", 0)
        ArrayAccessMsg(line) == Finding("Array access syntax detected", line, "", 0)
        SemicolonMsg(line, stripped) ==
            Finding("Consider adding semicolon", line, stripped, 0)
        \* a line that is neither empty nor a comment, trimmed
        IsCode(stripped) == stripped # <<>> /\ ~StartsWith(stripped, LineComment)
        \* re.search(r'\b\w+\s*\([^)]*$', stripped): a `(` with no `)` after it,
        \* and a word before it, whitespace allowed in between
        OpenCallFound(t) ==
            \E q \in 1..Len(t) :
                /\ t[q] = "("
                /\ \A m \in (q + 1)..Len(t) : t[m] # ")"
                /\ \E b \in 2..q :
                      /\ t[b - 1] \in WordChars
                      /\ \A m \in b..(q - 1) : t[m] \in Whitespace
        \* re.search(r'\w+\[\s*\w+\s*\]\s*=', stripped)
        ArrayAssignFound(t) ==
            \E p \in 1..(Len(t) - 1) :
                /\ t[p] \in WordChars
                /\ t[p + 1] = "["
                /\ \E a \in Skip(t, p + 2, Whitespace) :
                   \E b \in (Skip(t, a, WordChars) \ {a}) :
                   \E c \in Skip(t, b, Whitespace) :
                      /\ c <= Len(t) /\ t[c] = "]"
                      /\ LET d == RunEnd(t, c + 1, Whitespace)
                         IN  d <= Len(t) /\ t[d] = "="
        \* .*\w+\s*\(.*\)\s*$ from position p on: a word character, then `(`
        \* (whitespace allowed in between), and `)` as the last character that is
        \* not whitespace
        CallToTheEnd(t, p) ==
            \E w \in p..Len(t) :
                /\ t[w] \in WordChars
                /\ LET q == RunEnd(t, w + 1, Whitespace)
                   IN  /\ q <= Len(t) /\ t[q] = "("
                       /\ \E c \in (q + 1)..Len(t) :
                             /\ t[c] = ")"
                             /\ \A m \in (c + 1)..Len(t) : t[m] \in Whitespace
        \* re.match(r'^\s*\w+\s*=.*\w+\s*\(.*\)\s*$', stripped), and the same with
        \* := for =
        AssignedCall(t, sign) ==
            LET a == RunEnd(t, 1, Whitespace)
                b == RunEnd(t, a, WordChars)
                c == RunEnd(t, b, Whitespace)
            IN  b > a /\ At(t, c, sign) /\ CallToTheEnd(t, c + Len(sign))
        \* re.match(r'^\s*var\s+\w+.*=.*\w+\s*\(.*\)\s*$', stripped)
        VarAssignedCall(t) ==
            LET a == RunEnd(t, 1, Whitespace)
            IN  /\ At(t, a, <<"v", "a", "r">>)
                /\ \E b \in (Skip(t, a + 3, Whitespace) \ {a + 3}) :
                   \E c \in (Skip(t, b, WordChars) \ {b}) :
                   \E e \in c..Len(t) : t[e] = "=" /\ CallToTheEnd(t, e + 1)
        \* the guard of lines 402-405
        SemicolonCandidate(t) ==
            /\ IsCode(t)
            /\ ~StartsWith(t, <<"/", "/", "@">>)
            /\ \A c \in {",", "{", "(", "}", ")", ":"} : ~EndsWith(t, c)
            /\ ~StartsWith(t, <<"i", "f">>)
            /\ ~StartsWith(t, <<"e", "l", "s", "e">>)
            /\ ~StartsWith(t, <<"f", "o", "r">>)
    IN  /\ pc = "calls"
        /\ warnings' = warnings
              \o Flat([n \in 1..Len(lines) |->
                          LET stripped == Strip(lines[n])
                          IN  IF /\ IsCode(stripped)
                                 /\ OpenCallFound(stripped)
                                 /\ ~EndsWith(stripped, ")")
                              THEN <<IncompleteCallMsg(n)>>
                              ELSE <<>>])
              \o Flat([n \in 1..Len(lines) |->
                          LET stripped == Strip(lines[n])
                          IN  IF IsCode(stripped) /\ ArrayAssignFound(stripped)
                              THEN <<ArrayAccessMsg(n)>>
                              ELSE <<>>])
              \o Flat([n \in 1..Len(lines) |->
                          LET stripped == Strip(lines[n])
                          IN  IF /\ SemicolonCandidate(stripped)
                                 /\ \/ AssignedCall(stripped, <<"=">>)
                                    \/ AssignedCall(stripped, <<":", "=">>)
                                    \/ VarAssignedCall(stripped)
                              THEN <<SemicolonMsg(n, stripped)>>
                              ELSE <<>>])
        /\ pc' = "check_common_issues"
        /\ UNCHANGED <<doc, func, process, i, j, stack, errors, tracker,
                       declared_vars>>

---------------------------------------------------------------------------
(* check_common_issues, lines 413-464.                                     *)

\* self.check_common_issues(content, lines)
CheckCommonIssues ==
    LET
        \* version = int(version_match.group(1)) if version_match else 5
        DefaultVersion == 5
        CommonVersion(s) ==
            IF DirectiveMatches(s) # {} THEN DirectiveNumber(s) ELSE DefaultVersion
        deprecated_funcs ==
            << <<"s", "e", "c", "u", "r", "i", "t", "y">>, <<"p", "l", "o", "t", "c", "h", "a", "r">>,
               <<"f", "i", "l", "l">> >>
        \* re.findall(r'\bvar\s+\w+\s*=', content): where the matches start and
        \* where each ends
        VarDeclarationEnd(s, p) ==
            LET a == RunEnd(s, p + 3, Whitespace)
                b == RunEnd(s, a, WordChars)
                c == RunEnd(s, b, Whitespace)
            IN  IF /\ Boundary(s, p) /\ At(s, p, <<"v", "a", "r">>)
                   /\ a > p + 3 /\ b > a
                   /\ c <= Len(s) /\ s[c] = "="
                THEN c
                ELSE 0
        VarDeclarationStarts(s) == {p \in 1..Len(s) : VarDeclarationEnd(s, p) > 0}
        \* re.findall(r'\barray\.\w+', content) is not empty
        ArrayUsed(s) ==
            \E p \in 1..Len(s) :
                /\ Boundary(s, p)
                /\ At(s, p, <<"a", "r", "r", "a", "y", ".">>)
                /\ p + 6 <= Len(s) /\ s[p + 6] \in WordChars
        \* len(re.findall(r'\bif\s+\(', content))
        IfCount(s) ==
            Cardinality({p \in 1..Len(s) :
                /\ Boundary(s, p) /\ At(s, p, <<"i", "f">>)
                /\ LET a == RunEnd(s, p + 2, Whitespace)
                   IN  a > p + 2 /\ a <= Len(s) /\ s[a] = "("})
        \* len(re.findall(r'\bfor\s+', content))
        ForCount(s) ==
            Cardinality({p \in 1..Len(s) :
                /\ Boundary(s, p) /\ At(s, p, <<"f", "o", "r">>)
                /\ p + 3 <= Len(s) /\ s[p + 3] \in Whitespace})
        DeprecatedMsg(deprecated) ==
            Finding("Using potentially deprecated function", 0, deprecated, 0)
        VarScopeMsg(decl) == Finding("Var declaration found", 0, decl, 0)
        NoArrayInitMsg ==
            Finding("Array operations detected but no array initialization", 0, "", 0)
        DivisionFoundMsg == Finding("Division operations found", 0, "", 0)
        SecurityV6Msg == Finding("Using request.security", 0, "", 0)
        StrategyRiskMsg == Finding("consider using strategy.risk", 0, "", 0)
        MatrixMsg == Finding("Matrix operations detected", 0, "", 0)
        VaripMsg == Finding("Using varip or var()", 0, "", 0)
        ManyIfsMsg == Finding("High number of conditional statements", 0, "", 0)
        ManyForsMsg(loop_count) ==
            Finding("High number of loops detected - monitor performance", 0, "",
                    loop_count)
        \* The warnings of check_common_issues, in the order it appends them.
        CommonFindings(s) ==
            Flat([k \in 1..Len(deprecated_funcs) |->
                    IF Has(s, deprecated_funcs[k] \o <<"(">>)
                    THEN <<DeprecatedMsg(deprecated_funcs[k])>>
                    ELSE <<>>])
            \o [k \in 1..Cardinality(VarDeclarationStarts(s)) |->
                  LET p == Rising(VarDeclarationStarts(s))[k]
                  IN  VarScopeMsg(SubSeq(s, p, VarDeclarationEnd(s, p)))]
            \o (IF ArrayUsed(s) /\ ~Has(s, <<"a", "r", "r", "a", "y", ".", "n", "e", "w">>)
                THEN <<NoArrayInitMsg>> ELSE <<>>)
            \o (IF Has(s, <<"/">>) THEN <<DivisionFoundMsg>> ELSE <<>>)
            \o (IF CommonVersion(s) >= 6
                THEN (IF Has(s, <<"r", "e", "q", "u", "e", "s", "t", ".", "s", "e", "c", "u", "r", "i", "t", "y">>)
                      THEN <<SecurityV6Msg>> ELSE <<>>)
                     \o (IF Has(s, <<"s", "t", "r", "a", "t", "e", "g", "y", ".", "e", "n", "t", "r", "y">>)
                            /\ ~Has(s, <<"s", "t", "r", "a", "t", "e", "g", "y", ".", "r", "i", "s", "k">>)
                         THEN <<StrategyRiskMsg>> ELSE <<>>)
                     \o (IF Has(s, <<"m", "a", "t", "r", "i", "x", ".">>)
                            /\ ~Has(s, <<"m", "a", "t", "r", "i", "x", ".", "n", "e", "w">>)
                         THEN <<MatrixMsg>> ELSE <<>>)
                ELSE <<>>)
            \o (IF Has(s, <<"v", "a", "r", "i", "p">>) \/ Has(s, <<"v", "a", "r", "(", ")">>)
                THEN <<VaripMsg>> ELSE <<>>)
            \o (IF IfCount(s) > 10 THEN <<ManyIfsMsg>> ELSE <<>>)
            \o (IF ForCount(s) > 5 THEN <<ManyForsMsg(ForCount(s))>> ELSE <<>>)
    IN  /\ pc = "check_common_issues"
        /\ warnings' = warnings \o CommonFindings(content)
        /\ pc' = "return"
        /\ UNCHANGED <<doc, func, process, i, j, stack, errors, tracker,
                       declared_vars>>

---------------------------------------------------------------------------
(* main, lines 490-512, check_file, lines 24-42, and get_summary, lines    *)
(* 482-488.                                                                *)

\* if len(sys.argv) < 2: usage, sys.exit(1)
MainUsage ==
    /\ pc = "main"
    /\ argv = <<>>
    /\ exit_code' = 1
    /\ pc' = "exited"
    /\ UNCHANGED <<doc, func, argv, file, success, summary, i, j, stack,
                   errors, warnings, tracker, declared_vars>>

\* if not Path(file_path).exists(): sys.exit(1)
MainNotFound ==
    /\ pc = "main"
    /\ argv # <<>>
    /\ file = "absent"
    /\ exit_code' = 1
    /\ pc' = "exited"
    /\ UNCHANGED <<doc, func, argv, file, success, summary, i, j, stack,
                   errors, warnings, tracker, declared_vars>>

\* checker = PineSyntaxChecker(); success = checker.check_file(file_path)
MainCheck ==
    /\ pc = "main"
    /\ argv # <<>>
    /\ file # "absent"
    /\ pc' = "check_file"
    /\ UNCHANGED <<doc, func, process, i, j, stack, errors, warnings,
                   tracker, declared_vars>>

\* open() raises FileNotFoundError: the error is kept, check_file returns
\* False
CheckFileNotFound ==
    LET
        FileNotFoundMsg == Finding("File not found", 0, "script.pine", 0)
    IN  /\ pc = "check_file"
        /\ file = "vanished"
        /\ errors' = Append(errors, FileNotFoundMsg)
        /\ success' = "False"
        /\ pc' = "print_results"
        /\ UNCHANGED <<doc, func, argv, file, summary, exit_code, i, j, stack,
                       warnings, tracker, declared_vars>>

\* f.read() raises UnicodeDecodeError: the error is kept, check_file
\* returns False
CheckFileUndecodable ==
    LET
        EncodingErrorMsg == Finding("Encoding error", 0, "script.pine", 0)
    IN  /\ pc = "check_file"
        /\ file = "undecodable"
        /\ errors' = Append(errors, EncodingErrorMsg)
        /\ success' = "False"
        /\ pc' = "print_results"
        /\ UNCHANGED <<doc, func, argv, file, summary, exit_code, i, j, stack,
                       warnings, tracker, declared_vars>>

\* open() raises another OSError (a directory, no permission): nothing
\* catches it, the interpreter prints the traceback and exits with 1
CheckFileUnreadable ==
    /\ pc = "check_file"
    /\ file = "unreadable"
    /\ exit_code' = 1
    /\ pc' = "exited"
    /\ UNCHANGED <<doc, func, argv, file, success, summary, i, j, stack,
                   errors, warnings, tracker, declared_vars>>

\* the text is read and split; self.check_basic_syntax(content, lines)
CheckFileRead ==
    /\ pc = "check_file"
    /\ file = "text"
    /\ pc' = "brackets"
    /\ UNCHANGED <<doc, func, process, i, j, stack, errors, warnings,
                   tracker, declared_vars>>

CheckFileReturn ==
    LET
        \* return len(self.errors) == 0
        ReturnValue(errs) == IF Len(errs) = 0 THEN "True" ELSE "False"
    IN  /\ pc = "return"
        /\ success' = ReturnValue(errors)
        /\ pc' = "print_results"
        /\ UNCHANGED <<doc, func, argv, file, summary, exit_code, i, j, stack,
                       errors, warnings, tracker, declared_vars>>

\* checker.print_results(): output only
PrintResults ==
    /\ pc = "print_results"
    /\ pc' = "get_summary"
    /\ UNCHANGED <<doc, func, process, i, j, stack, errors, warnings,
                   tracker, declared_vars>>

\* get_summary()
SummaryCountingWarnings(errs, warns) ==
    [errors   |-> Len(errs),
     warnings |-> Len(warns),
     passed   |-> Len(errs) + Len(warns) = 0]
Summary(errs, warns) ==
    [errors   |-> Len(errs),
     warnings |-> Len(warns),
     passed   |-> Len(errs) = 0]

GetSummary ==
    /\ pc = "get_summary"
    /\ summary' = <<Summary(errors, warnings)>>
    /\ pc' = "exit"
    /\ UNCHANGED <<doc, func, argv, file, success, exit_code, i, j, stack,
                   errors, warnings, tracker, declared_vars>>

\* if summary['passed']: sys.exit(0) else: sys.exit(1)
Exit ==
    /\ pc = "exit"
    /\ exit_code' = IF summary[1].passed THEN 0 ELSE 1
    /\ pc' = "exited"
    /\ UNCHANGED <<doc, func, argv, file, success, summary, i, j, stack,
                   errors, warnings, tracker, declared_vars>>

---------------------------------------------------------------------------
(* The files of the runs of main: a head of up to two lines, and up to     *)
(* MaxBodyBlocks blocks of one to three lines below it.                    *)

FileDocuments ==
    LET
        VersionLine == <<"/", "/", "@", "v", "e", "r", "s", "i", "o", "n", "=", "6">>
        IndicatorLine == <<"i", "n", "d", "i", "c", "a", "t", "o", "r", "(", "x", ")">>
        Headers == {<<>>, <<VersionLine>>, <<VersionLine, IndicatorLine>>}
        \* a namespaced math call and a typed declaration:
        \*   y = math.sin(x) / var int x = 5
        PlainBlock ==
            <<"y", " ", "=", " ", "m", "a", "t", "h", ".", "s", "i", "n", "(", "x",
              ")", NL, "v", "a", "r", " ", "i", "n", "t", " ", "x", " ", "=", " ",
              "5">>
        \* a watched name used: y = minCycleLength
        WatchedUsedBlock ==
            <<"y", " ", "=", " ", "m", "i", "n", "C", "y", "c", "l", "e", "L", "e",
              "n", "g", "t", "h">>
        \* a watched name assigned: minCycleLength = 5
        WatchedAssignedBlock ==
            <<"m", "i", "n", "C", "y", "c", "l", "e", "L", "e", "n", "g", "t", "h",
              " ", "=", " ", "5">>
        \* a multiline comment: /* x */
        BlockCommentBlock == <<"/", "*", " ", "x", " ", "*", "/">>
        \* a call closed in a comment: f( / //)
        ClosedInCommentBlock == <<"f", "(", NL, "/", "/", ")">>
        \* a call opened in a comment: //( / f())
        OpenedInCommentBlock == <<"/", "/", "(", NL, "f", "(", ")", ")">>
        \* a closer without its opener: y = x)
        StrayCloserBlock == <<"y", " ", "=", " ", "x", ")">>
        \* a reserved keyword assigned: range = 5
        KeywordAssignedBlock == <<"r", "a", "n", "g", "e", " ", "=", " ", "5">>
        \* an invalid type: double d = 5
        InvalidTypeBlock ==
            <<"d", "o", "u", "b", "l", "e", " ", "d", " ", "=", " ", "5">>
        \* a list left open at the line end: f(options=[ / x])
        OpenListBlock ==
            <<"f", "(", "o", "p", "t", "i", "o", "n", "s", "=", "[", NL, "x", "]",
              ")">>
        \* a ternary left open: y = x ? / y / y
        OpenTernaryBlock == <<"y", " ", "=", " ", "x", " ", "?", NL, "y", NL, "y">>
        \* a linestyle parameter: plot(x, y, linestyle)
        LinestyleParameterBlock ==
            <<"p", "l", "o", "t", "(", "x", ",", " ", "y", ",", " ", "l", "i", "n",
              "e", "s", "t", "y", "l", "e", ")">>
        \* the random primitive: y = random.float(x)
        RandomCallBlock ==
            <<"y", " ", "=", " ", "r", "a", "n", "d", "o", "m", ".", "f", "l", "o",
              "a", "t", "(", "x", ")">>
        \* a timestamp formatted, a loop to a variable, an array without its
        \* constructor:
        \*   t = str.format_time(time) / for i = 0 to n / array.push(a, x)
        HintsBlock ==
            <<"t", " ", "=", " ", "s", "t", "r", ".", "f", "o", "r", "m", "a", "t",
              "_", "t", "i", "m", "e", "(", "t", "i", "m", "e", ")", NL, "f", "o",
              "r", " ", "i", " ", "=", " ", "0", " ", "t", "o", " ", "n", NL, "a",
              "r", "r", "a", "y", ".", "p", "u", "s", "h", "(", "a", ",", " ", "x",
              ")">>
        \* a bare math call, an old function, a division by a difference:
        \*   y = sin(x) / security(x) / y = x / (a - b)
        LegacyBlock ==
            <<"y", " ", "=", " ", "s", "i", "n", "(", "x", ")", NL, "s", "e", "c",
              "u", "r", "i", "t", "y", "(", "x", ")", NL, "y", " ", "=", " ", "x",
              " ", "/", " ", "(", "a", " ", "-", " ", "b", ")">>
        BodyBlocks ==
            {PlainBlock, WatchedUsedBlock, WatchedAssignedBlock, BlockCommentBlock,
             ClosedInCommentBlock, OpenedInCommentBlock, StrayCloserBlock,
             KeywordAssignedBlock, InvalidTypeBlock, OpenListBlock, OpenTernaryBlock,
             LinestyleParameterBlock, RandomCallBlock, HintsBlock, LegacyBlock}
        \* '\n'.join(ls), the empty text for no line at all
        JoinText(ls) == IF ls = <<>> THEN <<>> ELSE JoinLines(ls)
    IN  {JoinText(h \o b) : h \in Headers,
                             b \in SeqsUpTo(BodyBlocks, MaxBodyBlocks)}

InitMain ==
    LET
        \* What the path can name: nothing; a file Path.exists() sees and open()
        \* no longer finds; something open() cannot read (a directory, a file
        \* without read permission); bytes that are not UTF-8; a text.
        FileKinds == {"absent", "vanished", "unreadable", "undecodable", "text"}
    IN  /\ argv \in {<<>>, <<"script.pine">>}
        /\ file \in FileKinds
        /\ argv = <<>> => file = "absent"
        /\ content \in FileDocuments
        /\ file # "text" => content = <<>>
        /\ pc = "main"
        /\ success = "not returned"
        /\ summary = <<>>
        /\ exit_code = -1
        /\ InitLocals

NextMain ==
    \/ MainUsage
    \/ MainNotFound
    \/ MainCheck
    \/ CheckFileNotFound
    \/ CheckFileUndecodable
    \/ CheckFileUnreadable
    \/ CheckFileRead
    \/ BracketOpen
    \/ BracketUnexpected
    \/ BracketClose
    \/ BracketOther
    \/ BracketNextLine
    \/ BracketEnd
    \/ TextVersionStart
    \/ TextVersionNumber
    \/ Declaration
    \/ Comments
    \/ MultilineArray
    \/ MultilineParam
    \/ TernaryLine
    \/ TernaryEnd
    \/ ParenSkip
    \/ ParenLine
    \/ ParenEnd
    \/ Keywords
    \/ Types
    \/ MathFunction
    \/ MathEnd
    \/ LineRules
    \/ Heuristics
    \/ TextDeclaredLine
    \/ DeclaredEnd
    \/ TextUndeclaredLine
    \/ UndeclaredEnd
    \/ LineHints
    \/ CheckCommonIssues
    \/ CheckFileReturn
    \/ PrintResults
    \/ GetSummary
    \/ Exit

SpecMain == InitMain /\ [][NextMain]_vars

---------------------------------------------------------------------------
(* What a run of main has to end with.                                     *)

Exited == pc = "exited"

\* The text of the file was read: a path was given and it names a file that
\* opens and decodes.
Loaded == argv # <<>> /\ file = "text"

\* The steps of check_basic_syntax and check_common_issues.
ProcessSteps ==
    {"main", "check_file", "print_results", "get_summary", "exit", "exited"}
InValidation == pc \notin ProcessSteps

\* a missing file (before or after main looks for it), an undecodable one
NoText == {"absent", "vanished", "undecodable"}

(* C13: the reported error count is the number of errors collected, passed *)
(* is true exactly when that count is 0, and the process exits 0 exactly   *)
(* when the file was loaded and no error was produced, however many        *)
(* warnings there are; a missing argument, a missing file or a decode      *)
(* failure gives exit code 1, and for a missing or undecodable file no     *)
(* validation step runs.                                                   *)
C13_VerdictAndExitCode ==
    /\ summary # <<>> =>
          /\ summary[1].errors = Len(errors)
          /\ summary[1].passed <=> summary[1].errors = 0
    /\ Exited => (exit_code = 0 <=> (Loaded /\ Len(errors) = 0))
    /\ (Exited /\ (argv = <<>> \/ file \in NoText)) => exit_code = 1
    /\ file \in NoText =>
          /\ ~InValidation
          /\ warnings = <<>>
          /\ \A k \in 1..Len(errors) :
                errors[k].kind \in {"File not found", "Encoding error"}

\* A loaded file with three warnings or more and no error: exit code 0.
C13_Witness ==
    /\ Exited
    /\ Loaded
    /\ Len(warnings) >= 3
    /\ errors = <<>>
    /\ summary = <<[errors   |-> 0,
                    warnings |-> Len(warnings),
                    passed   |-> TRUE]>>
    /\ exit_code = 0

---------------------------------------------------------------------------
(* What makes a document well formed, read off the text alone.             *)

Blank(s, a, b) == \A m \in a..b : s[m] \in Whitespace
Word(s, a, b) == a <= b /\ \A m \in a..b : s[m] \in WordChars

\* w stands at p and no word character stands right before it
NameAt(s, p, w) == At(s, p, w) /\ ~(p > 1 /\ s[p - 1] \in WordChars)

\* w, not the tail of a longer word, then c, whitespace allowed in between
NameThen(s, w, C) ==
    \E p \in 1..Len(s) :
        /\ NameAt(s, p, w)
        /\ \E q \in (p + Len(w))..Len(s) :
              Blank(s, p + Len(w), q - 1) /\ s[q] \in C

\* w as a word of its own
NameAlone(s, w) ==
    \E p \in 1..Len(s) :
        /\ NameAt(s, p, w)
        /\ ~(p + Len(w) <= Len(s) /\ s[p + Len(w)] \in WordChars)

Version6Directive ==
    <<"/", "/", "@", "v", "e", "r", "s", "i", "o", "n", "=", "6">>
StartsWithVersion6 == At(content, 1, Version6Directive)
HoldsIndicatorCall == HoldsText(content, IndicatorCall)

MathCallsNamespaced ==
    \A n \in 1..Len(lines) : \A f \in ListedMathFunctions :
        OnlyMathCalls(lines[n], f)

\* the line reads `var <type> <name> =`, and <name> is w
VarDeclaration(line, w) ==
    \E p \in 1..Len(line) :
        /\ Blank(line, 1, p - 1)
        /\ At(line, p, <<"v", "a", "r">>)
        /\ \E a \in (p + 4)..Len(line) :
              /\ Blank(line, p + 3, a - 1)
              /\ \E b \in (a + 1)..Len(line) :
                    /\ Word(line, a, b - 1)
                    /\ \E c \in (b + 1)..Len(line) :
                          /\ Blank(line, b, c - 1)
                          /\ At(line, c, w)
                          /\ \E q \in (c + Len(w))..Len(line) :
                                /\ Blank(line, c + Len(w), q - 1)
                                /\ line[q] = "="

\* the line starts with w and `:` or `=`
FirstAssignment(line, w) ==
    \E p \in 1..Len(line) :
        /\ Blank(line, 1, p - 1)
        /\ At(line, p, w)
        /\ \E q \in (p + Len(w))..Len(line) :
              Blank(line, p + Len(w), q - 1) /\ line[q] \in {":", "="}

WordsOf(line) ==
    UNION {{SubSeq(line, a, b) :
               b \in {c \in a..Len(line) : Word(line, a, c)}} :
           a \in 1..Len(line)}

\* no `var` declaration of a name below a line that declares or assigns it
NoDuplicateDeclarations ==
    \A n \in 2..Len(lines) : \A w \in WordsOf(lines[n]) :
        VarDeclaration(lines[n], w) =>
            \A m \in 1..(n - 1) :
                ~(VarDeclaration(lines[m], w) \/ FirstAssignment(lines[m], w))

\* The five conditions of a well-formed document.
WellFormed ==
    /\ StartsWithVersion6
    /\ HoldsIndicatorCall
    /\ WellNested(content)
    /\ MathCallsNamespaced
    /\ NoDuplicateDeclarations

\* On the lines that are neither blank nor comments the round brackets
\* balance by themselves: at no line end more `)` than `(` so far, and as
\* many of each in the end.
CountedParensBalance ==
    /\ \A n \in 1..Len(lines) :
          HowManyCounted(n, "(") >= HowManyCounted(n, ")")
    /\ HowManyCounted(Len(lines), "(") = HowManyCounted(Len(lines), ")")

NoBlockComment ==
    ~HoldsText(content, <<"/", "*">>) /\ ~HoldsText(content, <<"*", "/">>)

\* `options=`, `[` and a line end before the next `]`
OpenOptionsList ==
    \E p \in 1..Len(content) :
        /\ At(content, p, <<"o", "p", "t", "i", "o", "n", "s", "=">>)
        /\ \E q \in (p + 8)..Len(content) :
              /\ Blank(content, p + 8, q - 1)
              /\ content[q] = "["
              /\ \E r \in (q + 1)..Len(content) :
                    /\ content[r] = NL
                    /\ \A m \in (q + 1)..(r - 1) : content[m] # "]"

\* the last character of the line that is not a blank is `?`
EndsWithQuestionMark(line) ==
    \E p \in 1..Len(line) : line[p] = "?" /\ Blank(line, p + 1, Len(line))

ReservedKeywords ==
    {<<"r", "a", "n", "g", "e">>, <<"b", "r", "e", "a", "k">>,
     <<"c", "o", "n", "t", "i", "n", "u", "e">>,
     <<"d", "e", "l", "e", "t", "e">>, <<"n", "e", "w">>,
     <<"t", "h", "i", "s">>, <<"s", "u", "p", "e", "r">>,
     <<"c", "l", "a", "s", "s">>,
     <<"i", "n", "t", "e", "r", "f", "a", "c", "e">>,
     <<"e", "x", "t", "e", "n", "d", "s">>,
     <<"i", "m", "p", "l", "e", "m", "e", "n", "t", "s">>,
     <<"p", "u", "b", "l", "i", "c">>, <<"p", "r", "i", "v", "a", "t", "e">>,
     <<"p", "r", "o", "t", "e", "c", "t", "e", "d">>,
     <<"s", "t", "a", "t", "i", "c">>, <<"f", "i", "n", "a", "l">>,
     <<"c", "o", "n", "s", "t">>, <<"v", "a", "r">>, <<"i", "f">>,
     <<"e", "l", "s", "e">>, <<"f", "o", "r">>, <<"w", "h", "i", "l", "e">>,
     <<"s", "w", "i", "t", "c", "h">>, <<"c", "a", "s", "e">>,
     <<"d", "e", "f", "a", "u", "l", "t">>, <<"t", "r", "y">>,
     <<"c", "a", "t", "c", "h">>, <<"t", "h", "r", "o", "w">>,
     <<"r", "e", "t", "u", "r", "n">>,
     <<"f", "u", "n", "c", "t", "i", "o", "n">>,
     <<"m", "e", "t", "h", "o", "d">>,
     <<"p", "r", "o", "p", "e", "r", "t", "y">>}

InvalidTypeNames ==
    {<<"i", "n", "t", "6", "4">>, <<"u", "i", "n", "t">>,
     <<"u", "i", "n", "t", "8">>, <<"u", "i", "n", "t", "1", "6">>,
     <<"u", "i", "n", "t", "3", "2">>, <<"u", "i", "n", "t", "6", "4">>,
     <<"b", "y", "t", "e">>, <<"d", "o", "u", "b", "l", "e">>,
     <<"c", "h", "a", "r">>, <<"b", "o", "o", "l", "e", "a", "n">>,
     <<"I", "n", "t", "e", "g", "e", "r">>, <<"F", "l", "o", "a", "t">>,
     <<"S", "t", "r", "i", "n", "g">>, <<"B", "o", "o", "l", "e", "a", "n">>}

\* the tenth entry of the list of types, as it is looked for: the text
\* string\[\] with its backslashes, between a word character and none
EscapedStringArrayText ==
    <<"s", "t", "r", "i", "n", "g", "\\", "[", "\\", "]">>
EscapedStringArray ==
    \E p \in 1..Len(content) :
        /\ NameAt(content, p, EscapedStringArrayText)
        /\ p + 10 <= Len(content)
        /\ content[p + 10] \in WordChars

NoReservedKeywordAssigned ==
    \A w \in ReservedKeywords : ~NameThen(content, w, {"="})

NoInvalidTypeName ==
    /\ \A w \in InvalidTypeNames : ~NameAlone(content, w)
    /\ ~EscapedStringArray

PlottingCalls ==
    {<<"h", "l", "i", "n", "e", "(">>, <<"p", "l", "o", "t", "(">>,
     <<"p", "l", "o", "t", "c", "a", "n", "d", "l", "e", "(">>}
LinestyleName == <<"l", "i", "n", "e", "s", "t", "y", "l", "e">>

\* a plotting call with `linestyle` somewhere behind it on the line
LinestyleBehindPlot(line) ==
    \E w \in PlottingCalls : \E p \in 1..Len(line) :
        /\ At(line, p, w)
        /\ \E q \in (p + Len(w))..Len(line) : At(line, q, LinestyleName)

NoLinestyleParameter ==
    \A n \in 1..Len(lines) : ~LinestyleBehindPlot(lines[n])

RandomFloatText ==
    <<"r", "a", "n", "d", "o", "m", ".", "f", "l", "o", "a", "t", "(">>
NoRandomFloat ==
    \A n \in 1..Len(lines) :
        HoldsText(lines[n], RandomFloatText) => CommentLine(lines[n])

CycleVariables == {WatchTexts[k] : k \in 1..Len(WatchTexts)}

\* a cycle variable on a line that is no comment is followed by `:` or `=`
\* there or on a line above
CycleVariablesDeclared ==
    \A n \in 1..Len(lines) : \A w \in CycleVariables :
        (HoldsText(lines[n], w) /\ ~CommentLine(lines[n])) =>
            \E m \in 1..n : NameThen(lines[m], w, {":", "="})

\* What the other error checks ask of a document.
PassesOtherChecks ==
    /\ CountedParensBalance
    /\ NoBlockComment
    /\ ~OpenOptionsList
    /\ \A n \in 1..Len(lines) : ~EndsWithQuestionMark(lines[n])
    /\ NoReservedKeywordAssigned
    /\ NoInvalidTypeName
    /\ NoLinestyleParameter
    /\ NoRandomFloat
    /\ CycleVariablesDeclared

(* C14 as stated: every document that starts with `//@version=6`, contains *)
(* `indicator(`, has all brackets balanced, calls math functions only as   *)
(* `math.<func>` and has no duplicate declarations produces zero errors    *)
(* over all checks of check_file, so the run passes with exit code 0.      *)
C14_WellFormedPasses ==
    (Exited /\ Loaded /\ WellFormed) => (errors = <<>> /\ exit_code = 0)

(* C14 as amended: a document that starts with `//@version=6`, contains    *)
(* `indicator(`, has all brackets balanced, calls math functions only as   *)
(* `math.<func>` and has no duplicate declarations produces zero errors    *)
(* and the run exits 0, provided it also passes the other error checks:    *)
(* the round brackets of its non-blank, non-comment lines balance by       *)
(* themselves; it holds no `/*` or `*/`, no `options=[` list running over  *)
(* a line end, no line ending in `?`, no reserved keyword before `=`, no   *)
(* invalid type name, no `linestyle` behind a plotting call, no            *)
(* `random.float(` outside comments; and every cycle variable it uses is   *)
(* followed by `:` or `=` on that line or above.                           *)
C14_WellFormedPassesAmended ==
    (Exited /\ Loaded /\ WellFormed /\ PassesOtherChecks)
        => (errors = <<>> /\ exit_code = 0)

\* `//@version=6`, `indicator(x)`, `y = math.sin(x)`, `var int x = 5`
WellFormedLines ==
    <<Version6Directive, IndicatorCall \o <<"x", ")">>,
      <<"y", " ", "=", " ", "m", "a", "t", "h", ".", "s", "i", "n", "(", "x",
        ")">>,
      <<"v", "a", "r", " ", "i", "n", "t", " ", "x", " ", "=", " ", "5">> >>

\* That file: no error, exit code 0.
C14_Witness ==
    /\ Exited
    /\ Loaded
    /\ lines = WellFormedLines
    /\ WellFormed
    /\ PassesOtherChecks
    /\ errors = <<>>
    /\ exit_code = 0

=============================================================================
